---- MODULE Spec2Model ----
(***************************************************************************)
(* HTML-table to pipe-table conversion of the PMTRPG documentation tools.  *)
(*                                                                         *)
(*   scripts/rebuild_html_tables_to_pipe.py : html_table_to_pipe,          *)
(*                                            rebuild_file                 *)
(*   scripts/fix_tables.py                  : table_html_to_pipe, fix_file *)
(*                                                                         *)
(* Texts are TLA+ strings; TLC evaluates Len, \o and SubSeq on them, so a  *)
(* character of a text s is SubSeq(s, i, i).                               *)
(***************************************************************************)
EXTENDS Integers, Sequences, FiniteSets, TLC

(***************************************************************************)
(* Bounds of the model.                                                    *)
(***************************************************************************)
MaxRows == 3        \* <tr> elements of one table
MaxCells == 4       \* <td>/<th> elements of one table, all rows together
MaxRenderRows == 2  \* rows handed to a renderer
MaxRenderCols == 2  \* columns of the rows handed to a renderer
MaxCellChunks == 4  \* pieces a cell text is made of
MaxChunks == 4      \* pieces a document is made of
MaxLevelLines == 4  \* lines of the text handed to fix_specific_tables
MaxChecklistLines == 3  \* lines of the checklist file

(***************************************************************************)
(* String helpers: the Python str / re operations the scripts use.         *)
(***************************************************************************)
Char(s, i) == SubSeq(s, i, i)

\* characters removed by str.strip() and matched by \s: space, the escapes
\* below, vertical tab (U+000B) and U+001C..U+001F, written as themselves.
\* Python counts U+0085, U+00A0 and the other Unicode spaces too; they are
\* not ASCII, a string of this language cannot hold them, and the texts of
\* the model do not contain them.
SpaceSet == {" ", "\t", "\n", "\r", "\f", "", "", "", "", ""}

IsSpace(c) == c \in SpaceSet

Max(a, b) == IF a > b THEN a ELSE b

\* smallest / largest element of a set of positions, 0 for the empty set
MinPos(S) == IF S = {} THEN 0 ELSE CHOOSE x \in S : \A y \in S : x <= y

MaxPos(S) == IF S = {} THEN 0 ELSE CHOOSE x \in S : \A y \in S : x >= y

StartsWithAt(s, i, p) ==
    /\ i + Len(p) - 1 <= Len(s)
    /\ SubSeq(s, i, i + Len(p) - 1) = p

\* str.find(p, i - 1) + 1: first position >= i where p occurs, 0 when none
NextAt(s, i, p) == MinPos({ k \in i..(Len(s) - Len(p) + 1) : StartsWithAt(s, k, p) })

\* first position >= i whose character is in / is not in the set C
NextIn(s, i, C) == MinPos({ k \in i..Len(s) : Char(s, k) \in C })

NextNotIn(s, i, C) == MinPos({ k \in i..Len(s) : Char(s, k) \notin C })

\* last position of the run of characters of C that starts at j
RunEnd(s, j, C) == IF NextNotIn(s, j, C) = 0 THEN Len(s) ELSE NextNotIn(s, j, C) - 1

LStrip(s) ==
    IF NextNotIn(s, 1, SpaceSet) = 0 THEN ""
    ELSE SubSeq(s, NextNotIn(s, 1, SpaceSet), Len(s))

RStrip(s) == SubSeq(s, 1, MaxPos({ k \in 1..Len(s) : ~IsSpace(Char(s, k)) }))

\* str.strip()
Strip(s) == RStrip(LStrip(s))

\* str.replace(old, new): leftmost non-overlapping occurrences
RECURSIVE ReplaceFrom(_, _, _, _)
ReplaceFrom(s, i, old, new) ==
    IF NextAt(s, i, old) = 0 THEN SubSeq(s, i, Len(s))
    ELSE SubSeq(s, i, NextAt(s, i, old) - 1) \o new
         \o ReplaceFrom(s, NextAt(s, i, old) + Len(old), old, new)

Replace(s, old, new) == ReplaceFrom(s, 1, old, new)

\* re.sub(r"[ \t]+", " ", s)
RECURSIVE CollapseBlanksFrom(_, _)
CollapseBlanksFrom(s, i) ==
    IF NextIn(s, i, {" ", "\t"}) = 0 THEN SubSeq(s, i, Len(s))
    ELSE SubSeq(s, i, NextIn(s, i, {" ", "\t"}) - 1) \o " "
         \o CollapseBlanksFrom(s, RunEnd(s, NextIn(s, i, {" ", "\t"}), {" ", "\t"}) + 1)

CollapseBlanks(s) == CollapseBlanksFrom(s, 1)

\* re.sub(r"\n{k,}", rep, s)
RECURSIVE SquashNewlines(_, _, _, _)
SquashNewlines(s, i, k, rep) ==
    LET j == NextAt(s, i, "\n")
        e == RunEnd(s, j, {"\n"})
    IN  IF j = 0 THEN SubSeq(s, i, Len(s))
        ELSE SubSeq(s, i, j - 1)
             \o (IF e - j + 1 >= k THEN rep ELSE SubSeq(s, j, e))
             \o SquashNewlines(s, e + 1, k, rep)

\* str.split(sep) for a one-character separator: always at least one piece
RECURSIVE SplitFrom(_, _, _)
SplitFrom(s, i, sep) ==
    IF NextAt(s, i, sep) = 0 THEN <<SubSeq(s, i, Len(s))>>
    ELSE <<SubSeq(s, i, NextAt(s, i, sep) - 1)>>
         \o SplitFrom(s, NextAt(s, i, sep) + 1, sep)

Split(s, sep) == SplitFrom(s, 1, sep)

\* sep.join(parts)
RECURSIVE Join(_, _)
Join(parts, sep) ==
    IF parts = <<>> THEN ""
    ELSE IF Len(parts) = 1 THEN parts[1]
         ELSE parts[1] \o sep \o Join(Tail(parts), sep)

MapStrip(parts) == [k \in 1..Len(parts) |-> Strip(parts[k])]

(***************************************************************************)
(* _norm_cell_text (rebuild_html_tables_to_pipe.py)                        *)
(***************************************************************************)
\* _norm_cell_text without the replacement of a lone carriage return
NormCellTextKeepCR(text) ==
    LET t1 == Replace(text, "\r\n", "\n")
        t2 == CollapseBlanks(t1)
        t3 == Strip(Join(MapStrip(Split(t2, "\n")), "\n"))
        t4 == Replace(t3, "\n", "<br>")
    IN  Replace(t4, "|", "\\|")

_norm_cell_text(text) ==
    LET t1 == Replace(Replace(text, "\r\n", "\n"), "\r", "\n")
        t2 == CollapseBlanks(t1)
        t3 == Strip(Join(MapStrip(Split(t2, "\n")), "\n"))
        t4 == Replace(t3, "\n", "<br>")
    IN  Replace(t4, "|", "\\|")

(***************************************************************************)
(* int(cell.get(attr, 1) or 1) with the ValueError handler and the clamp   *)
(* to 1.  An attribute is <<>> when absent and <<value>> when present.     *)
(***************************************************************************)
Digits == "0123456789"

DigitSet == {"0", "1", "2", "3", "4", "5", "6", "7", "8", "9"}

IsDigit(c) == c \in DigitSet

DigitVal(c) == (CHOOSE d \in 1..10 : Char(Digits, d) = c) - 1

\* the value of a string of digits; the underscores between them do not
\* count
RECURSIVE DigitsVal(_)
DigitsVal(s) ==
    IF s = "" THEN 0
    ELSE IF Char(s, Len(s)) = "_" THEN DigitsVal(SubSeq(s, 1, Len(s) - 1))
    ELSE 10 * DigitsVal(SubSeq(s, 1, Len(s) - 1)) + DigitVal(Char(s, Len(s)))

\* the digits of a decimal literal: groups of digits, one underscore allowed
\* between two digits
DigitGroups(s) ==
    /\ s # ""
    /\ \A i \in 1..Len(s) : IsDigit(Char(s, i)) \/ Char(s, i) = "_"
    /\ IsDigit(Char(s, 1))
    /\ IsDigit(Char(s, Len(s)))
    /\ NextAt(s, 1, "__") = 0

\* a literal without its sign
Unsigned(t) ==
    IF t # "" /\ Char(t, 1) \in {"+", "-"} THEN SubSeq(t, 2, Len(t)) ELSE t

\* white space int() skips around a literal: of the ASCII characters, the
\* ones of C's isspace(); U+001C..U+001F are not among them
IntSpaceSet == {" ", "\t", "\n", "\r", "\f", ""}

IntStrip(s) ==
    IF NextNotIn(s, 1, IntSpaceSet) = 0 THEN ""
    ELSE SubSeq(s, NextNotIn(s, 1, IntSpaceSet),
                MaxPos({ k \in 1..Len(s) : Char(s, k) \notin IntSpaceSet }))

\* int(s) succeeds: optional surrounding whitespace, optional sign, digits
\* with single underscores between them
IsIntLiteral(s) == DigitGroups(Unsigned(IntStrip(s)))

SignedVal(t) ==
    IF Char(t, 1) = "-" THEN 0 - DigitsVal(Unsigned(t)) ELSE DigitsVal(Unsigned(t))

\* int(s) of a literal
IntOf(s) == SignedVal(IntStrip(s))

\* SpanOf without the clamp to 1
SpanOfUnclamped(attr) ==
    IF attr = <<>> \/ attr[1] = "" THEN 1
    ELSE IF IsIntLiteral(attr[1]) THEN IntOf(attr[1])
    ELSE 1

SpanOf(attr) ==
    LET parsed == IF attr = <<>> \/ attr[1] = "" THEN 1
                  ELSE IF IsIntLiteral(attr[1]) THEN IntOf(attr[1])
                  ELSE 1
    IN  IF parsed < 1 THEN 1 ELSE parsed

(***************************************************************************)
(* Input of html_table_to_pipe: the <tr> elements of the parsed table, each *)
(* a sequence of cell descriptors.  raw is cell.get_text("\n", strip=True), *)
(* rowspan/colspan the attribute as written, th the header-cell flag.       *)
(***************************************************************************)
Cell(raw, rs, cs, th) == [raw |-> raw, rowspan |-> rs, colspan |-> cs, th |-> th]

CellKinds ==
    { Cell("A", <<>>, <<>>, FALSE),
      Cell("C", <<>>, <<>>, FALSE),
      Cell(" ", <<"-1">>, <<"">>, FALSE),
      Cell("B", <<"2">>, <<>>, FALSE),
      Cell("A", <<"3">>, <<"2">>, FALSE),
      Cell("x|y", <<"0">>, <<"x">>, TRUE) }

RowChoices(n) == UNION { [1..k -> CellKinds] : k \in 0..n }

RECURSIVE CountCells(_)
CountCells(rows) ==
    IF rows = <<>> THEN 0 ELSE Len(Head(rows)) + CountCells(Tail(rows))

(***************************************************************************)
(* Span-aware grid builder (html_table_to_pipe, lines 36-84)               *)
(***************************************************************************)
SpanCell(remaining, text) == [remaining |-> remaining, text |-> text]

EmptySpanMap == [c \in {} |-> SpanCell(0, "")]

SpanDel(m, k) == [c \in (DOMAIN m) \ {k} |-> m[c]]

SpanPut(m, k, v) == [c \in (DOMAIN m) \cup {k} |-> IF c = k THEN v ELSE m[c]]

\* fill_spans removing a carry only once its count is below zero
RECURSIVE FillSpansKeepZero(_)
FillSpansKeepZero(st) ==
    IF st.col \in DOMAIN st.span_map
    THEN LET sc == st.span_map[st.col]
             left == sc.remaining - 1
         IN  FillSpansKeepZero([row |-> Append(st.row, sc.text),
                                col |-> st.col + 1,
                                span_map |-> IF left < 0
                                             THEN SpanDel(st.span_map, st.col)
                                             ELSE SpanPut(st.span_map, st.col,
                                                          SpanCell(left, sc.text))])
    ELSE st

\* st = [row, col, span_map]: the closure state of fill_spans
RECURSIVE fill_spans(_)
fill_spans(st) ==
    IF st.col \in DOMAIN st.span_map
    THEN LET sc == st.span_map[st.col]
             left == sc.remaining - 1
         IN  fill_spans([row |-> Append(st.row, sc.text),
                         col |-> st.col + 1,
                         span_map |-> IF left <= 0
                                      THEN SpanDel(st.span_map, st.col)
                                      ELSE SpanPut(st.span_map, st.col,
                                                   SpanCell(left, sc.text))])
    ELSE st

\* for i in range(colspan): row.append(text); register the carry
RECURSIVE AppendCopies(_, _, _, _, _)
AppendCopies(st, i, colspan, rowspan, text) ==
    IF i >= colspan THEN st
    ELSE AppendCopies([row |-> Append(st.row, text),
                       col |-> st.col,
                       span_map |-> IF rowspan > 1
                                    THEN SpanPut(st.span_map, st.col + i,
                                                 SpanCell(rowspan - 1, text))
                                    ELSE st.span_map],
                      i + 1, colspan, rowspan, text)

\* PlaceGenuine with the carry registered one row-span too low
PlaceGenuineLateCarry(st, cell) ==
    LET text == _norm_cell_text(cell.raw)
        rowspan == SpanOf(cell.rowspan)
        colspan == SpanOf(cell.colspan)
        st2 == AppendCopies(st, 0, colspan, rowspan - 1, text)
    IN  [row |-> st2.row, col |-> st.col + colspan, span_map |-> st2.span_map]

\* one iteration of "for cell in cells", after its fill_spans()
PlaceGenuine(st, cell) ==
    LET text == _norm_cell_text(cell.raw)
        rowspan == SpanOf(cell.rowspan)
        colspan == SpanOf(cell.colspan)
        st2 == AppendCopies(st, 0, colspan, rowspan, text)
    IN  [row |-> st2.row, col |-> st.col + colspan, span_map |-> st2.span_map]

(***************************************************************************)
(* Padding (lines 89-92)                                                   *)
(***************************************************************************)
\* MaxLen taking the length of the first row for the width
MaxLenFirstRow(g) == IF g = <<>> THEN 0 ELSE Len(Head(g))

RECURSIVE MaxLen(_)
MaxLen(g) ==
    IF g = <<>> THEN 0 ELSE Max(Len(Head(g)), MaxLen(Tail(g)))

Blanks(n) == [k \in 1..n |-> ""]

\* PadRow with the empty cells put in front of the row
PadRowLeft(r, n) == IF Len(r) < n THEN Blanks(n - Len(r)) \o r ELSE r

PadRow(r, n) == IF Len(r) < n THEN r \o Blanks(n - Len(r)) ELSE r

PadGrid(g, n) == [k \in 1..Len(g) |-> PadRow(g[k], n)]

(***************************************************************************)
(* Title extraction (lines 96-107)                                         *)
(***************************************************************************)
IsNonBlank(c) == Strip(c) # ""

non_empty(r) == SelectSeq(r, IsNonBlank)

uniq(r) == { non_empty(r)[k] : k \in 1..Len(non_empty(r)) }

\* RowTitle without the rule for repeated identical cells
RowTitleSingleOnly(r) ==
    IF Len(non_empty(r)) = 1 THEN <<non_empty(r)[1]>> ELSE <<>>

\* <<>> when the row goes to body, <<t>> when t is hoisted
RowTitle(r) ==
    IF Len(non_empty(r)) = 1 THEN <<non_empty(r)[1]>>
    ELSE IF Cardinality(uniq(r)) = 1 /\ Len(non_empty(r)) >= 2
         THEN <<CHOOSE t \in uniq(r) : TRUE>>
         ELSE <<>>

\* ExtractTitles that leaves a hoisted row in the body as well
RECURSIVE ExtractTitlesKeepRow(_)
ExtractTitlesKeepRow(g) ==
    IF g = <<>> THEN [titles |-> <<>>, body |-> <<>>]
    ELSE LET rest == ExtractTitlesKeepRow(Tail(g))
             t == RowTitle(Head(g))
         IN  [titles |-> t \o rest.titles, body |-> <<Head(g)>> \o rest.body]

RECURSIVE ExtractTitles(_)
ExtractTitles(g) ==
    IF g = <<>> THEN [titles |-> <<>>, body |-> <<>>]
    ELSE LET rest == ExtractTitles(Tail(g))
             t == RowTitle(Head(g))
         IN  IF t # <<>>
             THEN [titles |-> t \o rest.titles, body |-> rest.body]
             ELSE [titles |-> rest.titles, body |-> <<Head(g)>> \o rest.body]

(***************************************************************************)
(* Rendering (lines 109-134)                                               *)
(***************************************************************************)
Bold(t) == "**" \o t \o "**"

\* pipe_row without the blanks around the cells
PipeRowTight(r) == "|" \o Join(r, "|") \o "|"

pipe_row(r) == "| " \o Join(r, " | ") \o " |"

\* RenderTitlesOnly without the bold markers
RenderTitlesPlain(ts) == Join(ts, "\n\n") \o "\n"

RenderTitlesOnly(ts) ==
    Join([k \in 1..Len(ts) |-> Bold(ts[k])], "\n\n") \o "\n"

\* TitleLines without the blank line after each title
TitleLinesNoBlank(ts) == [k \in 1..Len(ts) |-> Bold(ts[k])]

RECURSIVE TitleLines(_)
TitleLines(ts) ==
    IF ts = <<>> THEN <<>> ELSE <<Bold(Head(ts)), "">> \o TitleLines(Tail(ts))

RenderTable(ts, bd, n) ==
    LET header == bd[1]
        rows == Tail(bd)
        sep == [k \in 1..n |-> "---"]
        out_lines == TitleLines(ts) \o <<pipe_row(header), pipe_row(sep)>>
                     \o [k \in 1..Len(rows) |-> pipe_row(rows[k])]
    IN  Join(out_lines, "\n") \o "\n"

(***************************************************************************)
(* Block locator: TABLE_BLOCK_RE.finditer of both scripts.  A match is     *)
(* [start, end] with Python offsets (0-based, end exclusive).              *)
(***************************************************************************)
UpperSet ==
    {"A", "B", "C", "D", "E", "F", "G", "H", "I", "J", "K", "L", "M", "N", "O",
     "P", "Q", "R", "S", "T", "U", "V", "W", "X", "Y", "Z"}

LowerSet ==
    {"a", "b", "c", "d", "e", "f", "g", "h", "i", "j", "k", "l", "m", "n", "o",
     "p", "q", "r", "s", "t", "u", "v", "w", "x", "y", "z"}

LowerOf ==
    "A" :> "a" @@ "B" :> "b" @@ "C" :> "c" @@ "D" :> "d" @@ "E" :> "e" @@
    "F" :> "f" @@ "G" :> "g" @@ "H" :> "h" @@ "I" :> "i" @@ "J" :> "j" @@
    "K" :> "k" @@ "L" :> "l" @@ "M" :> "m" @@ "N" :> "n" @@ "O" :> "o" @@
    "P" :> "p" @@ "Q" :> "q" @@ "R" :> "r" @@ "S" :> "s" @@ "T" :> "t" @@
    "U" :> "u" @@ "V" :> "v" @@ "W" :> "w" @@ "X" :> "x" @@ "Y" :> "y" @@
    "Z" :> "z"

LowerChar(c) == IF c \in UpperSet THEN LowerOf[c] ELSE c

RECURSIVE LowerStr(_)
LowerStr(s) ==
    IF s = "" THEN "" ELSE LowerChar(Char(s, 1)) \o LowerStr(SubSeq(s, 2, Len(s)))

\* \w
IsWordChar(c) == c \in UpperSet \/ c \in LowerSet \/ IsDigit(c) \/ c = "_"

\* p (lower case) occurs at position i of s, letter case ignored (re.I)
IMatchAt(s, i, p) ==
    /\ i + Len(p) - 1 <= Len(s)
    /\ LowerChar(Char(s, i)) = Char(p, 1)
    /\ LowerStr(SubSeq(s, i, i + Len(p) - 1)) = p

\* first position >= i where p occurs, 0 when there is none
IFind(s, i, p) == MinPos({ k \in i..(Len(s) - Len(p) + 1) : IMatchAt(s, k, p) })

GroupOf(s, m) == SubSeq(s, m.start + 1, m.end)

\* fix_tables.py: <table>\s*[\s\S]*?</table>
RECURSIVE FixFindIter(_, _)
FixFindIter(s, from) ==
    LET i == IFind(s, from, "<table>")
        j == IFind(s, i + 7, "</table>")
    IN  IF i = 0 \/ j = 0 THEN <<>>
        ELSE <<[start |-> i - 1, end |-> j + 7]>> \o FixFindIter(s, j + 8)

\* position of the ">" that ends </table\s*> begun at j, 0 when it does not
RECURSIVE CloseEnd(_, _)
CloseEnd(s, k) ==
    IF k > Len(s) THEN 0
    ELSE IF Char(s, k) = ">" THEN k
    ELSE IF IsSpace(Char(s, k)) THEN CloseEnd(s, k + 1)
    ELSE 0

\* first j >= from where </table\s*> matches; result is the position of ">"
RECURSIVE FindClose(_, _)
FindClose(s, from) ==
    LET j == IFind(s, from, "</table")
    IN  IF j = 0 THEN 0
        ELSE IF CloseEnd(s, j + 7) # 0 THEN CloseEnd(s, j + 7)
        ELSE FindClose(s, j + 1)

\* first i >= from where <table\b matches
RECURSIVE FindOpen(_, _)
FindOpen(s, from) ==
    LET i == IFind(s, from, "<table")
    IN  IF i = 0 THEN 0
        ELSE IF i + 6 > Len(s) \/ ~IsWordChar(Char(s, i + 6)) THEN i
        ELSE FindOpen(s, i + 1)

\* rebuild_html_tables_to_pipe.py: <table\b[\s\S]*?</table\s*>
RECURSIVE RebuildFindIter(_, _)
RebuildFindIter(s, from) ==
    LET i == FindOpen(s, from)
        e == FindClose(s, i + 6)
    IN  IF i = 0 \/ e = 0 THEN <<>>
        ELSE <<[start |-> i - 1, end |-> e]>> \o RebuildFindIter(s, e + 1)

(***************************************************************************)
(* Markup of a table region as the XML parser of fix_tables.py sees it: a  *)
(* sequence of tags and text runs.  The regions of the model carry tags    *)
(* without attributes and without a namespace prefix, no comments, CDATA   *)
(* sections, processing instructions or numeric character references.      *)
(***************************************************************************)
FindChar(s, i, c) == NextAt(s, i, c)

LetterSet == UpperSet \cup LowerSet

IsLetter(c) == c \in LetterSet

\* white space of XML markup
XmlSpaceSet == {" ", "\t", "\n", "\r"}

\* a well-formed element name without a prefix
XmlName(x) ==
    /\ x # ""
    /\ IsLetter(Char(x, 1)) \/ Char(x, 1) = "_"
    /\ \A i \in 2..Len(x) :
          IsLetter(Char(x, i)) \/ IsDigit(Char(x, i)) \/ Char(x, i) \in {"_", "-", "."}

\* the tag name: the characters before the first white space
TagName(x) ==
    IF NextIn(x, 1, XmlSpaceSet) = 0 THEN x
    ELSE SubSeq(x, 1, NextIn(x, 1, XmlSpaceSet) - 1)

\* a name, then white space only
IsXmlTag(x) ==
    /\ XmlName(TagName(x))
    /\ \/ NextIn(x, 1, XmlSpaceSet) = 0
       \/ NextNotIn(x, NextIn(x, 1, XmlSpaceSet), XmlSpaceSet) = 0

Token(kind, name, text) == [kind |-> kind, name |-> name, text |-> text]

\* the tag t = "<...>" is an end tag, an empty-element tag or a start tag
TagKind(t) ==
    IF Len(t) >= 3 /\ Char(t, 2) = "/" THEN "close"
    ELSE IF Len(t) >= 3 /\ Char(t, Len(t) - 1) = "/" THEN "self"
    ELSE "open"

\* what the tag holds between its delimiters
TagInner(t) ==
    IF TagKind(t) = "close" THEN SubSeq(t, 3, Len(t) - 1)
    ELSE IF TagKind(t) = "self" THEN SubSeq(t, 2, Len(t) - 2)
    ELSE SubSeq(t, 2, Len(t) - 1)

\* the token of the tag t; kind bad when t is not a well-formed tag
TagToken(t) ==
    IF IsXmlTag(TagInner(t)) THEN Token(TagKind(t), TagName(TagInner(t)), "")
    ELSE Token("bad", "", "")

\* U+00A0, the character &nbsp; stands for in HTML.  A TLA+ string cannot
\* hold it; form feed stands for it: after the parse the code treats the two
\* alike (str.strip() removes both, [ \t]+ matches neither, neither is "\n").
NBSP == "\f"

\* the entity references of the model and the characters they stand for:
\* the first five are the ones XML predefines, HTML knows all six
EntityNames == <<"&lt;", "&gt;", "&quot;", "&apos;", "&amp;", "&nbsp;">>

EntityChars == <<"<", ">", "\"", "'", "&", NBSP>>

\* index of the reference, among the first n, that starts at position k of
\* x; 0 when none does
EntityAt(x, k, n) ==
    MinPos({ e \in 1..n : StartsWithAt(x, k, EntityNames[e]) })

\* x from position i with the first n references replaced; an ampersand that
\* starts none of them stays
RECURSIVE DecodeFrom(_, _, _)
DecodeAt(x, i, k, e, n) ==
    SubSeq(x, i, k - 1)
    \o (IF e = 0 THEN "&" ELSE EntityChars[e])
    \o DecodeFrom(x, IF e = 0 THEN k + 1 ELSE k + Len(EntityNames[e]), n)

DecodeFrom(x, i, n) ==
    IF NextAt(x, i, "&") = 0 THEN SubSeq(x, i, Len(x))
    ELSE DecodeAt(x, i, NextAt(x, i, "&"), EntityAt(x, NextAt(x, i, "&"), n), n)

\* the characters below U+0020 that XML 1.0 allows nowhere in a document:
\* U+0001..U+0008, U+000B, U+000C and U+000E..U+001F, written as themselves
XmlBadChars ==
    {"", "", "", "", "", "", "", "", "", "", "", "", "", "",
     "", "", "", "", "", "", "", "", "", "", "", "", "", ""}

\* character data the XML parser accepts: no character XML forbids, no
\* "]]>", and every ampersand starts a predefined entity reference
XmlTextOk(x) ==
    /\ NextIn(x, 1, XmlBadChars) = 0
    /\ NextAt(x, 1, "]]>") = 0
    /\ \A k \in 1..Len(x) : Char(x, k) = "&" => EntityAt(x, k, 5) # 0

\* the text of a node: "\r\n" and "\r" turned into "\n", then the entity
\* references replaced
TextToken(x) ==
    IF XmlTextOk(x)
    THEN Token("text", "", DecodeFrom(Replace(Replace(x, "\r\n", "\n"), "\r", "\n"), 1, 5))
    ELSE Token("bad", "", "")

\* the tokens of s from position i; the first piece that is not well-formed
\* XML ends the sequence with a token of kind bad
RECURSIVE Tokenize(_, _)
TokenThen(tok, s, next) ==
    IF tok.kind = "bad" THEN <<tok>> ELSE <<tok>> \o Tokenize(s, next)

\* a tag from position i, j the position of its ">"
TagTokens(s, i, j) ==
    IF j = 0 THEN <<Token("bad", "", "")>>
    ELSE TokenThen(TagToken(SubSeq(s, i, j)), s, j + 1)

\* a text run from position i, j the position of the next "<"
TextTokens(s, i, j) ==
    IF j = 0 THEN <<TextToken(SubSeq(s, i, Len(s)))>>
    ELSE TokenThen(TextToken(SubSeq(s, i, j - 1)), s, j)

Tokenize(s, i) ==
    IF i > Len(s) THEN <<>>
    ELSE IF Char(s, i) = "<" THEN TagTokens(s, i, FindChar(s, i, ">"))
    ELSE TextTokens(s, i, FindChar(s, i, "<"))

\* ET.fromstring accepts the tokens: every tag and text run is well-formed
\* (no token of kind bad), tags nest properly, one root element
RECURSIVE WellNested(_, _, _)
WellNested(tk, k, stack) ==
    IF k > Len(tk) THEN stack = <<>>
    ELSE IF tk[k].kind = "bad" THEN FALSE
    ELSE IF k > 1 /\ stack = <<>> THEN FALSE
    ELSE IF tk[k].kind = "open"
    THEN WellNested(tk, k + 1, <<tk[k].name>> \o stack)
    ELSE IF tk[k].kind = "close"
    THEN /\ stack # <<>>
         /\ Head(stack) = tk[k].name
         /\ WellNested(tk, k + 1, Tail(stack))
    ELSE WellNested(tk, k + 1, stack)

\* index of the end tag of the element that starts at token i
RECURSIVE MatchCloseFrom(_, _, _)
MatchCloseFrom(tk, k, depth) ==
    IF tk[k].kind = "open" THEN MatchCloseFrom(tk, k + 1, depth + 1)
    ELSE IF tk[k].kind = "close"
    THEN IF depth = 1 THEN k ELSE MatchCloseFrom(tk, k + 1, depth - 1)
    ELSE MatchCloseFrom(tk, k + 1, depth)

MatchClose(tk, i) == IF tk[i].kind = "self" THEN i ELSE MatchCloseFrom(tk, i, 0)

IsElement(t) == t.kind \in {"open", "self"}

\* indices of the child elements of the element at token i, in order
RECURSIVE ChildrenFrom(_, _, _)
ChildrenFrom(tk, k, last) ==
    IF k >= last THEN <<>>
    ELSE IF IsElement(tk[k])
    THEN <<k>> \o ChildrenFrom(tk, MatchClose(tk, k) + 1, last)
    ELSE ChildrenFrom(tk, k + 1, last)

Children(tk, i) ==
    IF tk[i].kind = "self" THEN <<>> ELSE ChildrenFrom(tk, i + 1, MatchClose(tk, i))

(***************************************************************************)
(* fix_tables.py: _xml_sanitize, _cell_text, table_html_to_pipe            *)
(***************************************************************************)
\* re.sub(r"</?(?:tbody|thead|tfoot)\b[^>]*>", "", html, flags=re.I)
SectionTagEnd(s, i) ==
    LET n == IF IMatchAt(s, i, "</") THEN i + 2
             ELSE IF IMatchAt(s, i, "<") THEN i + 1 ELSE 0
        e == IF n = 0 THEN 0
             ELSE IF \E w \in {"tbody", "thead", "tfoot"} : IMatchAt(s, n, w)
             THEN n + 5 ELSE 0
    IN  IF e = 0 THEN 0
        ELSE IF e <= Len(s) /\ IsWordChar(Char(s, e)) THEN 0
        ELSE FindChar(s, e, ">")

RECURSIVE DropSectionTags(_, _)
DropSectionTags(s, i) ==
    LET j == NextAt(s, i, "<")
    IN  IF j = 0 THEN SubSeq(s, i, Len(s))
        ELSE IF SectionTagEnd(s, j) # 0
        THEN SubSeq(s, i, j - 1) \o DropSectionTags(s, SectionTagEnd(s, j) + 1)
        ELSE SubSeq(s, i, j) \o DropSectionTags(s, j + 1)

_xml_sanitize(html) ==
    LET h1 == Replace(html, "&nbsp;", " ")
        h2 == Replace(Replace(h1, "<br>", "<br/>"), "<br />", "<br/>")
    IN  DropSectionTags(h2, 1)

\* re.sub(r"[ \t]+", " ", s.strip())
_strip_surrounding_whitespace(s) == CollapseBlanks(Strip(s))

_escape_pipes(s) == Replace(s, "|", "\\|")

\* "".join(_iter_cell_parts(node)) over the tokens a..b inside the node
RECURSIVE IterCellParts(_, _, _)
IterCellParts(tk, a, b) ==
    IF a > b THEN ""
    ELSE IF tk[a].kind = "text" THEN tk[a].text \o IterCellParts(tk, a + 1, b)
    ELSE LET m == MatchClose(tk, a)
             tag == LowerStr(tk[a].name)
             inner == IterCellParts(tk, a + 1, m - 1)
             piece == IF tag = "br" THEN "\n"
                      ELSE IF tag = "strong"
                      THEN IF Strip(inner) # ""
                           THEN "**" \o Strip(inner) \o "**" ELSE ""
                      ELSE inner
         IN  piece \o IterCellParts(tk, m + 1, b)

IsNotEmpty(p) == p # ""

_cell_text(tk, i) ==
    LET raw0 == IF tk[i].kind = "self" THEN ""
                ELSE IterCellParts(tk, i + 1, MatchClose(tk, i) - 1)
        raw1 == Replace(Replace(raw0, "\r\n", "\n"), "\r", "\n")
        raw2 == SquashNewlines(raw1, 1, 3, "\n\n")
        parts == SelectSeq(MapStrip(Split(raw2, "\n")), IsNotEmpty)
    IN  IF parts = <<>> THEN ""
        ELSE _escape_pipes(_strip_surrounding_whitespace(Join(parts, "<br>")))

\* the tokens ET.fromstring receives
XmlTokens(table_html) ==
    Tokenize("<root>" \o _xml_sanitize(table_html) \o "</root>", 1)

\* ET.fromstring raises
XmlRaises(table_html) == ~WellNested(XmlTokens(table_html), 1, <<>>)

\* root.find(".//table"): index of the first table element below root, or 0
RECURSIVE FirstTable(_, _)
FirstTable(tk, k) ==
    IF k > Len(tk) THEN 0
    ELSE IF IsElement(tk[k]) /\ tk[k].name = "table" THEN k
    ELSE FirstTable(tk, k + 1)

\* the cells of one <tr>: its td/th children
RECURSIVE RowCells(_, _)
RowCells(tk, kids) ==
    IF kids = <<>> THEN <<>>
    ELSE IF LowerStr(tk[Head(kids)].name) \in {"td", "th"}
    THEN <<_cell_text(tk, Head(kids))>> \o RowCells(tk, Tail(kids))
    ELSE RowCells(tk, Tail(kids))

\* for tr in table.findall(".//tr"): rows with at least one cell
RECURSIVE XmlRows(_, _, _)
XmlRows(tk, k, last) ==
    IF k >= last THEN <<>>
    ELSE IF IsElement(tk[k]) /\ tk[k].name = "tr"
    THEN LET cs == RowCells(tk, Children(tk, k))
         IN  (IF cs # <<>> THEN <<cs>> ELSE <<>>) \o XmlRows(tk, k + 1, last)
    ELSE XmlRows(tk, k + 1, last)

BlankToSpace(r) == [k \in 1..Len(r) |-> IF r[k] # "" THEN r[k] ELSE " "]

fmt_row(r) == "| " \o Join(BlankToSpace(r), " | ") \o " |"

AllEmpty(r) == \A k \in 1..Len(r) : r[k] = ""

\* lines 102-110: header, separator and body rows to text
FmtTable(header, bodyRows, col_count) ==
    LET sep == [k \in 1..col_count |-> "---"]
        out_lines == <<fmt_row(header), "| " \o Join(sep, " | ") \o " |">>
                     \o [k \in 1..Len(bodyRows) |-> fmt_row(bodyRows[k])]
    IN  Join(out_lines, "\n") \o "\n"

\* lines 90-110: the rows of the table to pipe text
RowsToPipe(rows0) ==
    IF rows0 = <<>> THEN ""
    ELSE LET col_count == MaxLen(rows0)
             rows == [k \in 1..Len(rows0) |->
                        rows0[k] \o Blanks(col_count - Len(rows0[k]))]
             swap == AllEmpty(rows[1]) /\ Len(rows) > 1
             header == IF swap THEN rows[2] ELSE rows[1]
             bodyRows == IF swap THEN Tail(Tail(rows)) ELSE Tail(rows)
         IN  FmtTable(header, bodyRows, col_count)

\* table_html_to_pipe for markup that parses
table_html_to_pipe(table_html) ==
    LET tk == XmlTokens(table_html)
        t == FirstTable(tk, 2)
    IN  IF t = 0 THEN table_html
        ELSE IF tk[t].kind = "self" THEN ""
        ELSE RowsToPipe(XmlRows(tk, t + 1, MatchClose(tk, t)))

(***************************************************************************)
(* html_table_to_pipe as a function of the table's rows: the steps above   *)
(* composed in the order of lines 36-134.                                  *)
(***************************************************************************)
RECURSIVE BuildRow(_, _)
BuildRow(cs, st) ==
    IF cs = <<>> THEN fill_spans(st)
    ELSE BuildRow(Tail(cs), PlaceGenuine(fill_spans(st), Head(cs)))

RECURSIVE BuildGrid(_, _)
BuildGrid(rows, sm) ==
    IF rows = <<>> THEN <<>>
    ELSE LET st == BuildRow(Head(rows),
                            fill_spans([row |-> <<>>, col |-> 0, span_map |-> sm]))
         IN  <<st.row>> \o BuildGrid(Tail(rows), st.span_map)

RenderRows(rows) ==
    LET g0 == BuildGrid(rows, EmptySpanMap)
        n == MaxLen(g0)
        e == ExtractTitles(PadGrid(g0, n))
    IN  IF g0 = <<>> THEN ""
        ELSE IF e.body = <<>> THEN RenderTitlesOnly(e.titles)
        ELSE RenderTable(e.titles, e.body, n)

(***************************************************************************)
(* BeautifulSoup(table_html, "html5lib"): the <tr> elements and cells of   *)
(* the first table of the region.  The HTML parser never rejects markup.   *)
(* The regions of the model carry tags without attributes, the tags table, *)
(* tbody, thead, tfoot, tr, td, th and br, text, and the character         *)
(* references &nbsp; &lt; &gt; &quot; &apos; &amp; written with their      *)
(* semicolon; their cells hold text and <br> only.                         *)
(***************************************************************************)
\* the text of a node: the character references replaced
HtmlDecode(x) == DecodeFrom(x, 1, 6)

\* a "<" the tokenizer takes as the start of markup: followed by a letter,
\* "!" or "?", or by "/" and one more character; any other "<" is text
IsMarkupStart(s, k) ==
    /\ Char(s, k) = "<"
    /\ k + 1 <= Len(s)
    /\ \/ IsLetter(Char(s, k + 1))
       \/ Char(s, k + 1) \in {"!", "?"}
       \/ Char(s, k + 1) = "/" /\ k + 2 <= Len(s)

NextMarkup(s, i) == MinPos({ k \in i..Len(s) : IsMarkupStart(s, k) })

\* the lower-cased tag name: the characters before the first white space
\* or "/"
HtmlTagName(x) ==
    IF NextIn(x, 1, {" ", "\t", "\n", "\f", "/"}) = 0 THEN LowerStr(x)
    ELSE LowerStr(SubSeq(x, 1, NextIn(x, 1, {" ", "\t", "\n", "\f", "/"}) - 1))

\* the markup at position i is a start tag, an end tag, a DOCTYPE ("<!"
\* and the word in any letter case) or a comment: "<!--", and the bogus
\* comments "<!", "<?", and "</" before a character that is not a letter
MarkupKind(s, i) ==
    IF IsLetter(Char(s, i + 1)) THEN "open"
    ELSE IF Char(s, i + 1) = "/" /\ IsLetter(Char(s, i + 2)) THEN "close"
    ELSE IF IMatchAt(s, i, "<!doctype") THEN "doctype"
    ELSE "comment"

\* position of the ">" that ends the comment whose "<!--" ends before
\* position p: ">" or "->" at once, else the ">" of the first "-->" or
\* "--!>" that begins at p or later; 0 when the input ends in the comment
CommentEnd(s, p) ==
    IF StartsWithAt(s, p, ">") THEN p
    ELSE IF StartsWithAt(s, p, "->") THEN p + 1
    ELSE MinPos({ k \in (p + 2)..Len(s) :
                    /\ Char(s, k) = ">"
                    /\ \/ SubSeq(s, k - 2, k - 1) = "--"
                       \/ k >= p + 3 /\ SubSeq(s, k - 3, k - 1) = "--!" })

\* position of the ">" that ends the markup at position i, 0 when the input
\* ends in it: a ">" inside a comment that starts with "<!--" does not end it
MarkupEnd(s, i) ==
    IF StartsWithAt(s, i, "<!--") THEN CommentEnd(s, i + 4)
    ELSE FindChar(s, i, ">")

\* the token of the markup from position i to its ">" at position j; a tag
\* written <x/> is a start tag
MarkupToken(kind, s, i, j) ==
    IF kind \in {"comment", "doctype"} THEN Token(kind, "", "")
    ELSE Token(kind,
               HtmlTagName(SubSeq(s, IF kind = "open" THEN i + 1 ELSE i + 2, j - 1)),
               "")

\* the tokens of s from the markup at position i, j the position of its
\* ">"; "</>" is dropped; of the markup the input ends in, a tag is dropped,
\* a comment or a DOCTYPE is still a token
RECURSIVE HtmlTokenize(_, _)
MarkupTokens(s, i, j) ==
    IF Char(s, i + 1) = "/" /\ Char(s, i + 2) = ">" THEN HtmlTokenize(s, i + 3)
    ELSE IF j = 0
    THEN IF MarkupKind(s, i) \in {"open", "close"} THEN <<>>
         ELSE <<Token(MarkupKind(s, i), "", "")>>
    ELSE <<MarkupToken(MarkupKind(s, i), s, i, j)>> \o HtmlTokenize(s, j + 1)

\* a text run from position i, j the position of the next markup
HtmlTextTokens(s, i, j) ==
    IF j = 0 THEN <<Token("text", "", HtmlDecode(SubSeq(s, i, Len(s))))>>
    ELSE <<Token("text", "", HtmlDecode(SubSeq(s, i, j - 1)))>> \o HtmlTokenize(s, j)

HtmlTokenize(s, i) ==
    IF i > Len(s) THEN <<>>
    ELSE IF IsMarkupStart(s, i) THEN MarkupTokens(s, i, MarkupEnd(s, i))
    ELSE HtmlTextTokens(s, i, NextMarkup(s, i + 1))

\* the tokens of a region: the input stream turns "\r\n" and "\r" into "\n"
HtmlTokens(table_html) ==
    HtmlTokenize(Replace(Replace(table_html, "\r\n", "\n"), "\r", "\n"), 1)

\* the tree builder's position: mode is before (no table yet), table (in
\* the table, outside rows), row, cell or after (the first table is closed);
\* sec is the open table section, "" when none; txt holds the text nodes of
\* the open cell
HtmlState(mode, sec, rows, cur, txt, th) ==
    [mode |-> mode, sec |-> sec, rows |-> rows, cur |-> cur, txt |-> txt,
     th |-> th]

\* text inserted after a text node is added to that node
AppendText(txt, x) ==
    IF txt = <<>> THEN <<x>>
    ELSE SubSeq(txt, 1, Len(txt) - 1) \o <<txt[Len(txt)] \o x>>

\* the cell is closed; its raw text is cell.get_text("\n", strip=True): the
\* text nodes stripped, the empty ones dropped, joined by "\n"
EndCell(h) ==
    HtmlState("row", h.sec, h.rows,
              Append(h.cur,
                     Cell(Join(SelectSeq(MapStrip(h.txt), IsNotEmpty), "\n"),
                          <<>>, <<>>, h.th)),
              <<>>, FALSE)

\* the open cell, if there is one, is closed
Closed(h) == IF h.mode = "cell" THEN EndCell(h) ELSE h

\* the open row of c, if there is one, is closed
RowEnded(c) ==
    IF c.mode = "row"
    THEN HtmlState("table", c.sec, Append(c.rows, c.cur), <<>>, <<>>, FALSE)
    ELSE c

\* one token in the insertion modes "in body" (before, after), "in table" and
\* "in table body" (table), "in row" and "in cell"; c is h with its cell
\* closed.  A comment becomes a node, which get_text skips and which parts
\* the text before it from the text after it; a DOCTYPE adds no node.
HtmlApply(h, c, t) ==
    IF h.mode = "before"
    THEN IF t.kind = "open" /\ t.name = "table"
         THEN HtmlState("table", "", <<>>, <<>>, <<>>, FALSE) ELSE h
    ELSE IF h.mode = "after" THEN h
    ELSE IF t.kind = "text"
    THEN IF h.mode = "cell"
         THEN HtmlState("cell", h.sec, h.rows, h.cur, AppendText(h.txt, t.text), h.th)
         ELSE h
    ELSE IF t.kind = "comment"
    THEN IF h.mode = "cell"
         THEN HtmlState("cell", h.sec, h.rows, h.cur, Append(h.txt, ""), h.th)
         ELSE h
    ELSE IF t.kind = "doctype" THEN h
    ELSE IF t.name = "table" /\ (t.kind = "close" \/ h.mode # "cell")
    THEN HtmlState("after", h.sec, RowEnded(c).rows, <<>>, <<>>, FALSE)
    ELSE IF t.kind = "open" /\ t.name = "tr"
    THEN HtmlState("row", IF h.sec = "" THEN "tbody" ELSE h.sec,
                   RowEnded(c).rows, <<>>, <<>>, FALSE)
    ELSE IF t.kind = "open" /\ t.name \in {"td", "th"}
    THEN HtmlState("cell", IF h.sec = "" THEN "tbody" ELSE h.sec,
                   c.rows, c.cur, <<>>, t.name = "th")
    ELSE IF t.kind = "open" /\ t.name \in {"tbody", "thead", "tfoot"}
    THEN HtmlState("table", t.name, RowEnded(c).rows, <<>>, <<>>, FALSE)
    ELSE IF t.kind = "close" /\ t.name \in {"tbody", "thead", "tfoot"}
    THEN IF h.sec = t.name
         THEN HtmlState("table", "", RowEnded(c).rows, <<>>, <<>>, FALSE)
         ELSE h
    ELSE IF t.kind = "close" /\ t.name = "tr"
    THEN RowEnded(c)
    ELSE IF t.kind = "close" /\ t.name \in {"td", "th"}
    THEN IF h.mode = "cell" /\ h.th = (t.name = "th") THEN c ELSE h
    ELSE IF h.mode = "cell"
    THEN HtmlState("cell", h.sec, h.rows, h.cur, Append(h.txt, ""), h.th)
    ELSE h

HtmlStep(h, t) == HtmlApply(h, Closed(h), t)

RECURSIVE HtmlScan(_, _, _)
HtmlScan(tk, k, h) ==
    IF k > Len(tk) THEN h
    ELSE HtmlScan(tk, k + 1, HtmlStep(h, tk[k]))

\* the end of the input closes what is open
HtmlFinish(h) ==
    IF h.mode = "before" THEN h
    ELSE HtmlState("after", h.sec, RowEnded(Closed(h)).rows, <<>>, <<>>, FALSE)

\* the parse of a region: mode "before" when no table element was found
HtmlParse(table_html) ==
    HtmlFinish(HtmlScan(HtmlTokens(table_html), 1,
                        HtmlState("before", "", <<>>, <<>>, <<>>, FALSE)))

\* lines 31-134 for the parse h of table_html
PipeOfParse(table_html, h) ==
    IF h.mode = "before" THEN table_html ELSE RenderRows(h.rows)

html_table_to_pipe(table_html) == PipeOfParse(table_html, HtmlParse(table_html))

(***************************************************************************)
(* Batch drivers: fix_file (fix_tables.py) and rebuild_file                *)
(* (rebuild_html_tables_to_pipe.py)                                        *)
(***************************************************************************)
Reversed(sq) == [k \in 1..Len(sq) |-> sq[Len(sq) + 1 - k]]

\* the try/except around table_html_to_pipe in fix_file
TryConvert(table_html) ==
    IF XmlRaises(table_html) THEN table_html ELSE table_html_to_pipe(table_html)

\* t[a:b] for offsets 0 <= a, 0 <= b: a slice is cut to the string's length
Slice(t, a, b) ==
    IF a >= Len(t) \/ b <= a THEN ""
    ELSE SubSeq(t, a + 1, IF b < Len(t) THEN b ELSE Len(t))

\* new_text[: m.start()] + pipe + new_text[m.end():]
Splice(t, m, pipe) ==
    Slice(t, 0, m.start) \o pipe \o Slice(t, m.end, Len(t))

\* path.read_text("utf-8") / open(path, "r"): universal newlines
ReadText(bytes) == Replace(Replace(bytes, "\r\n", "\n"), "\r", "\n")

\* NormalizeBlankLines with the pattern \n{5,}
NormalizeBlankLinesFiveUp(t) ==
    Strip(SquashNewlines(Replace(t, "\r\n", "\n"), 1, 5, "\n\n\n")) \o "\n"

\* lines 138-139 of fix_file
NormalizeBlankLines(t) ==
    Strip(SquashNewlines(Replace(t, "\r\n", "\n"), 1, 4, "\n\n\n")) \o "\n"

\* "".join(out) of rebuild_file (lines 145-152) for the matches ms of src,
\* from offset last, pipes[k] being the text that replaces match k
RECURSIVE RebuildJoin(_, _, _, _)
RebuildJoin(src, ms, last, pipes) ==
    IF ms = <<>> THEN SubSeq(src, last + 1, Len(src))
    ELSE SubSeq(src, last + 1, Head(ms).start)
         \o Head(pipes)
         \o RebuildJoin(src, Tail(ms), Head(ms).end, Tail(pipes))

(***************************************************************************)
(* Documents of the model: up to MaxChunks pieces of markup and text.      *)
(***************************************************************************)
DocChunks ==
    << "<table>", "</table>", "<table><tr><td>a</td></tr></table>", "<tr>",
       "\n", "\r\n\n\n\n" >>

RECURSIVE Concat(_)
Concat(ps) == IF ps = <<>> THEN "" ELSE Head(ps) \o Concat(Tail(ps))

ChunkSeqs == UNION { [1..n -> 1..Len(DocChunks)] : n \in 0..MaxChunks }

Docs == { Concat([k \in 1..Len(f) |-> DocChunks[f[k]]]) : f \in ChunkSeqs }

\* the pieces of a cell's text; "<br/>" is markup for _cell_text and plain
\* characters for _norm_cell_text; the form feed is white space for
\* str.strip() and not for [ \t]+, and no XML text holds it
CellChunks == <<"a", " ", "\n", "\r", "\f", "|", "---", "<br/>", "\\">>

CellChunkSeqs == UNION { [1..n -> 1..Len(CellChunks)] : n \in 0..MaxCellChunks }

CellTexts == { Concat([k \in 1..Len(f) |-> CellChunks[f[k]]]) : f \in CellChunkSeqs }

\* the tokens of the cell element ET.fromstring hands to _cell_text
CellElement(raw) == Tokenize("<td>" \o raw \o "</td>", 1)


(***************************************************************************)
(* State of one html_table_to_pipe call                                    *)
(***************************************************************************)
VARIABLES
    gpc,          \* position in html_table_to_pipe
    cellsIn,      \* the <tr> elements iterated so far (input)
    cells,        \* cells of the <tr> being processed
    ci,           \* index of the next cell of cells
    row, col,     \* the row under construction and its column counter
    span_map,     \* column -> SpanCell
    grid,
    header_hint,
    max_cols,
    titles, body,
    out,          \* the returned text
    placed        \* where each genuine cell was put: row, col, spans, text

gridVars == <<gpc, cellsIn, cells, ci, row, col, span_map, grid, header_hint,
              max_cols, titles, body, out, placed>>

(***************************************************************************)
(* State of one fix_file / rebuild_file call                               *)
(***************************************************************************)
VARIABLES
    fpc,          \* position in the driver
    text,         \* the document read from the file (text / src)
    disk,         \* the content of the file
    blocks,       \* list(TABLE_BLOCK_RE.finditer(text))
    bi,           \* number of loop iterations done, plus one
    new_text,     \* fix_file: new_text; rebuild_file: new
    converted,
    parts,        \* rebuild_file: out
    last,         \* rebuild_file: last
    result        \* the value returned

fileVars == <<fpc, text, disk, blocks, bi, new_text, converted, parts, last,
              result>>

(***************************************************************************)
(* State of one call of a cell text normalizer                             *)
(***************************************************************************)
VARIABLES
    cpc,          \* which normalizer has been called
    craw,         \* the text of the cell as written
    cres          \* the value returned

cellVars == <<cpc, craw, cres>>

(***************************************************************************)
(* State of one rendering of a header row and body rows                    *)
(***************************************************************************)
VARIABLES
    rpc,          \* which renderer has been called
    rrows,        \* the header row followed by the body rows
    rtext         \* the text returned

renderVars == <<rpc, rrows, rtext>>

(***************************************************************************)
(* State of one fix_specific_tables call                                   *)
(***************************************************************************)
VARIABLES
    lpc,          \* position in fix_specific_tables
    md_lines,     \* lines: md_content.split('\n')
    li,           \* i, counted from 1
    fixed_lines,
    md_fixed      \* the text returned

levelVars == <<lpc, md_lines, li, fixed_lines, md_fixed>>

(***************************************************************************)
(* State of one run of the checklist driver (main of                       *)
(* rebuild_tables_from_checklist.py)                                       *)
(***************************************************************************)
VARIABLES
    kpc,            \* position in main, then how it ended
    files,          \* path -> content of the markdown files that exist
    checklist_disk, \* content of the checklist file
    checklist_text,
    todos,
    ti              \* number of items of todos visited, plus one

checkVars == <<kpc, files, checklist_disk, checklist_text, todos, ti>>

vars == <<gridVars, fileVars, cellVars, renderVars, levelVars, checkVars>>

NoFiles == [p \in {} |-> ""]

LevelIdle ==
    /\ lpc = "idle"
    /\ md_lines = <<>>
    /\ li = 1
    /\ fixed_lines = <<>>
    /\ md_fixed = ""

CheckIdle ==
    /\ kpc = "idle"
    /\ files = NoFiles
    /\ checklist_disk = ""
    /\ checklist_text = ""
    /\ todos = <<>>
    /\ ti = 1

RenderIdle ==
    /\ rpc = "idle"
    /\ rrows = <<>>
    /\ rtext = ""

CellIdle ==
    /\ cpc = "idle"
    /\ craw = ""
    /\ cres = ""

NoResult == [driver |-> "none", tables_found |-> 0, tables_converted |-> 0,
             changed |-> FALSE]

FixResult(found, conv) ==
    [driver |-> "fix_file", tables_found |-> found, tables_converted |-> conv,
     changed |-> FALSE]

RebuildResult(changed) ==
    [driver |-> "rebuild_file", tables_found |-> 0, tables_converted |-> 0,
     changed |-> changed]

GridIdle ==
    /\ gpc = "idle"
    /\ cellsIn = <<>>
    /\ cells = <<>>
    /\ ci = 1
    /\ row = <<>>
    /\ col = 0
    /\ span_map = EmptySpanMap
    /\ grid = <<>>
    /\ header_hint = FALSE
    /\ max_cols = 0
    /\ titles = <<>>
    /\ body = <<>>
    /\ out = ""
    /\ placed = <<>>

FileIdle ==
    /\ fpc = "idle"
    /\ text = ""
    /\ disk = ""
    /\ blocks = <<>>
    /\ bi = 1
    /\ new_text = ""
    /\ converted = 0
    /\ parts = <<>>
    /\ last = 0
    /\ result = NoResult

InitGrid ==
    /\ gpc = "rows"
    /\ cellsIn = <<>>
    /\ cells = <<>>
    /\ ci = 1
    /\ row = <<>>
    /\ col = 0
    /\ span_map = EmptySpanMap
    /\ grid = <<>>
    /\ header_hint = FALSE
    /\ max_cols = 0
    /\ titles = <<>>
    /\ body = <<>>
    /\ out = ""
    /\ placed = <<>>
    /\ FileIdle
    /\ CellIdle
    /\ RenderIdle
    /\ LevelIdle
    /\ CheckIdle

\* for tr in table.find_all("tr"): row = [], col = 0, fill_spans()
BeginRow ==
    /\ gpc = "rows"
    /\ Len(cellsIn) < MaxRows
    /\ \E cs \in RowChoices(MaxCells - CountCells(cellsIn)) :
          LET st == fill_spans([row |-> <<>>, col |-> 0, span_map |-> span_map])
          IN  /\ cellsIn' = Append(cellsIn, cs)
              /\ cells' = cs
              /\ ci' = 1
              /\ row' = st.row
              /\ col' = st.col
              /\ span_map' = st.span_map
              /\ header_hint' = (header_hint \/ \E k \in 1..Len(cs) : cs[k].th)
    /\ gpc' = "cells"
    /\ UNCHANGED <<fileVars, cellVars, renderVars, levelVars, checkVars>>
    /\ UNCHANGED <<grid, max_cols, titles, body, out, placed>>

\* for cell in cells: fill_spans(); place the cell
PlaceCell ==
    /\ gpc = "cells"
    /\ ci <= Len(cells)
    /\ LET st == fill_spans([row |-> row, col |-> col, span_map |-> span_map])
           st2 == PlaceGenuine(st, cells[ci])
       IN  /\ row' = st2.row
           /\ col' = st2.col
           /\ span_map' = st2.span_map
           /\ placed' = Append(placed,
                               [row |-> Len(grid), col |-> st.col,
                                rowspan |-> SpanOf(cells[ci].rowspan),
                                colspan |-> SpanOf(cells[ci].colspan),
                                text |-> _norm_cell_text(cells[ci].raw)])
    /\ ci' = ci + 1
    /\ UNCHANGED <<fileVars, cellVars, renderVars, levelVars, checkVars>>
    /\ UNCHANGED <<gpc, cellsIn, cells, grid, header_hint, max_cols, titles,
                   body, out>>

\* fill_spans(); grid.append(row)
EndRow ==
    /\ gpc = "cells"
    /\ ci > Len(cells)
    /\ LET st == fill_spans([row |-> row, col |-> col, span_map |-> span_map])
       IN  /\ grid' = Append(grid, st.row)
           /\ row' = st.row
           /\ col' = st.col
           /\ span_map' = st.span_map
    /\ gpc' = "rows"
    /\ UNCHANGED <<fileVars, cellVars, renderVars, levelVars, checkVars>>
    /\ UNCHANGED <<cellsIn, cells, ci, header_hint, max_cols, titles, body,
                   out, placed>>

\* if not grid: return ""
ReturnEmpty ==
    /\ gpc = "rows"
    /\ grid = <<>>
    /\ out' = ""
    /\ gpc' = "done"
    /\ UNCHANGED <<fileVars, cellVars, renderVars, levelVars, checkVars>>
    /\ UNCHANGED <<cellsIn, cells, ci, row, col, span_map, grid, header_hint,
                   max_cols, titles, body, placed>>

\* max_cols = max(len(r) for r in grid); pad every row.  row is the list
\* object appended last to grid, so extending grid[-1] extends row too.
Pad ==
    /\ gpc = "rows"
    /\ grid # <<>>
    /\ max_cols' = MaxLen(grid)
    /\ grid' = PadGrid(grid, MaxLen(grid))
    /\ row' = PadRow(row, MaxLen(grid))
    /\ gpc' = "titles"
    /\ UNCHANGED <<fileVars, cellVars, renderVars, levelVars, checkVars>>
    /\ UNCHANGED <<cellsIn, cells, ci, col, span_map, header_hint,
                   titles, body, out, placed>>

\* the loop that fills titles and body
HoistTitles ==
    /\ gpc = "titles"
    /\ titles' = ExtractTitles(grid).titles
    /\ body' = ExtractTitles(grid).body
    /\ gpc' = "emit"
    /\ UNCHANGED <<fileVars, cellVars, renderVars, levelVars, checkVars>>
    /\ UNCHANGED <<cellsIn, cells, ci, row, col, span_map, grid, header_hint,
                   max_cols, out, placed>>

\* if not body: return the titles as paragraphs
EmitTitles ==
    /\ gpc = "emit"
    /\ body = <<>>
    /\ out' = RenderTitlesOnly(titles)
    /\ gpc' = "done"
    /\ UNCHANGED <<fileVars, cellVars, renderVars, levelVars, checkVars>>
    /\ UNCHANGED <<cellsIn, cells, ci, row, col, span_map, grid, header_hint,
                   max_cols, titles, body, placed>>

\* header, separator and rows
EmitTable ==
    /\ gpc = "emit"
    /\ body # <<>>
    /\ out' = RenderTable(titles, body, max_cols)
    /\ gpc' = "done"
    /\ UNCHANGED <<fileVars, cellVars, renderVars, levelVars, checkVars>>
    /\ UNCHANGED <<cellsIn, cells, ci, row, col, span_map, grid, header_hint,
                   max_cols, titles, body, placed>>

NextGrid ==
    \/ BeginRow
    \/ PlaceCell
    \/ EndRow
    \/ ReturnEmpty
    \/ Pad
    \/ HoistTitles
    \/ EmitTitles
    \/ EmitTable

SpecGrid == InitGrid /\ [][NextGrid]_vars

TypeGrid == gpc \in {"rows", "cells", "titles", "emit", "done"} /\ fpc = "idle"

(***************************************************************************)
(* fix_file                                                                *)
(***************************************************************************)
InitFile ==
    /\ GridIdle
    /\ CellIdle
    /\ RenderIdle
    /\ LevelIdle
    /\ CheckIdle
    /\ fpc = "start"
    /\ disk \in Docs
    /\ text = ""
    /\ blocks = <<>>
    /\ bi = 1
    /\ new_text = ""
    /\ converted = 0
    /\ parts = <<>>
    /\ last = 0
    /\ result = NoResult

\* FixOrder visiting the matches in document order
FixOrderForward(ms) == ms

\* the order in which fix_file visits the matches
FixOrder(ms) == Reversed(ms)

\* if not blocks: return FixResult(path, 0, 0)
FixNoTables ==
    /\ fpc = "start"
    /\ text' = ReadText(disk)
    /\ FixFindIter(text', 1) = <<>>
    /\ result' = FixResult(0, 0)
    /\ fpc' = "done"
    /\ UNCHANGED <<disk, blocks, bi, new_text, converted, parts, last>>
    /\ UNCHANGED <<gridVars, cellVars, renderVars, levelVars, checkVars>>

\* new_text = text; converted = 0
FixBegin ==
    /\ fpc = "start"
    /\ text' = ReadText(disk)
    /\ blocks' = FixFindIter(text', 1)
    /\ blocks' # <<>>
    /\ new_text' = text'
    /\ converted' = 0
    /\ bi' = 1
    /\ fpc' = "fix_loop"
    /\ UNCHANGED <<disk, parts, last, result>>
    /\ UNCHANGED <<gridVars, cellVars, renderVars, levelVars, checkVars>>

\* FixReplace without the except clause: a region that does not parse ends
\* the call
FixReplaceAborting ==
    /\ fpc = "fix_loop"
    /\ bi <= Len(blocks)
    /\ LET m == FixOrder(blocks)[bi]
           table_html == GroupOf(text, m)
       IN  IF XmlRaises(table_html)
           THEN /\ result' = FixResult(Len(blocks), converted)
                /\ fpc' = "done"
                /\ UNCHANGED <<new_text, converted, bi>>
           ELSE /\ new_text' = Splice(new_text, m, table_html_to_pipe(table_html))
                /\ converted' = IF table_html_to_pipe(table_html) # table_html
                                 THEN converted + 1 ELSE converted
                /\ bi' = bi + 1
                /\ UNCHANGED <<fpc, result>>
    /\ UNCHANGED <<text, disk, blocks, parts, last>>
    /\ UNCHANGED <<gridVars, cellVars, renderVars, levelVars, checkVars>>

\* one iteration of "for m in reversed(blocks)"
FixReplace ==
    /\ fpc = "fix_loop"
    /\ bi <= Len(blocks)
    /\ LET m == FixOrder(blocks)[bi]
           table_html == GroupOf(text, m)
           pipe == TryConvert(table_html)
       IN  /\ new_text' = Splice(new_text, m, pipe)
           /\ converted' = IF pipe # table_html THEN converted + 1 ELSE converted
    /\ bi' = bi + 1
    /\ UNCHANGED <<fpc, text, disk, blocks, parts, last, result>>
    /\ UNCHANGED <<gridVars, cellVars, renderVars, levelVars, checkVars>>

\* new_text.replace("\r\n", "\n"); re.sub(r"\n{4,}", ...).strip() + "\n"
FixNormalize ==
    /\ fpc = "fix_loop"
    /\ bi > Len(blocks)
    /\ new_text' = NormalizeBlankLines(new_text)
    /\ fpc' = "fix_write"
    /\ UNCHANGED <<text, disk, blocks, bi, converted, parts, last, result>>
    /\ UNCHANGED <<gridVars, cellVars, renderVars, levelVars, checkVars>>

\* if new_text != text: path.write_text(new_text)
FixWrite ==
    /\ fpc = "fix_write"
    /\ new_text # text
    /\ disk' = new_text
    /\ result' = FixResult(Len(blocks), converted)
    /\ fpc' = "done"
    /\ UNCHANGED <<text, blocks, bi, new_text, converted, parts, last>>
    /\ UNCHANGED <<gridVars, cellVars, renderVars, levelVars, checkVars>>

FixKeep ==
    /\ fpc = "fix_write"
    /\ new_text = text
    /\ result' = FixResult(Len(blocks), converted)
    /\ fpc' = "done"
    /\ UNCHANGED <<text, disk, blocks, bi, new_text, converted, parts, last>>
    /\ UNCHANGED <<gridVars, cellVars, renderVars, levelVars, checkVars>>

(***************************************************************************)
(* rebuild_file                                                            *)
(***************************************************************************)
\* if not matches: return False
RebuildNoTables ==
    /\ fpc = "start"
    /\ text' = ReadText(disk)
    /\ RebuildFindIter(text', 1) = <<>>
    /\ result' = RebuildResult(FALSE)
    /\ fpc' = "done"
    /\ UNCHANGED <<disk, blocks, bi, new_text, converted, parts, last>>
    /\ UNCHANGED <<gridVars, cellVars, renderVars, levelVars, checkVars>>

\* out = []; last = 0
RebuildBegin ==
    /\ fpc = "start"
    /\ text' = ReadText(disk)
    /\ blocks' = RebuildFindIter(text', 1)
    /\ blocks' # <<>>
    /\ parts' = <<>>
    /\ last' = 0
    /\ bi' = 1
    /\ fpc' = "rebuild_loop"
    /\ UNCHANGED <<disk, new_text, converted, result>>
    /\ UNCHANGED <<gridVars, cellVars, renderVars, levelVars, checkVars>>

\* one iteration of "for m in matches"
RebuildStep ==
    /\ fpc = "rebuild_loop"
    /\ bi <= Len(blocks)
    /\ parts' = parts \o << SubSeq(text, last + 1, blocks[bi].start),
                            html_table_to_pipe(GroupOf(text, blocks[bi])) >>
    /\ last' = blocks[bi].end
    /\ bi' = bi + 1
    /\ UNCHANGED <<fpc, text, disk, blocks, new_text, converted, result>>
    /\ UNCHANGED <<gridVars, cellVars, renderVars, levelVars, checkVars>>

\* out.append(src[last:]); write "".join(out); return True
RebuildWrite ==
    /\ fpc = "rebuild_loop"
    /\ bi > Len(blocks)
    /\ parts' = Append(parts, SubSeq(text, last + 1, Len(text)))
    /\ new_text' = Concat(parts')
    /\ disk' = new_text'
    /\ result' = RebuildResult(TRUE)
    /\ fpc' = "done"
    /\ UNCHANGED <<text, blocks, bi, converted, last>>
    /\ UNCHANGED <<gridVars, cellVars, renderVars, levelVars, checkVars>>

NextFile ==
    \/ FixNoTables
    \/ FixBegin
    \/ FixReplace
    \/ FixNormalize
    \/ FixWrite
    \/ FixKeep
    \/ RebuildNoTables
    \/ RebuildBegin
    \/ RebuildStep
    \/ RebuildWrite

SpecFile == InitFile /\ [][NextFile]_vars

TypeFile ==
    fpc \in {"start", "fix_loop", "fix_write", "rebuild_loop", "done"}

(***************************************************************************)
(* The cell text normalizers called on one cell                            *)
(***************************************************************************)
InitCell ==
    /\ GridIdle
    /\ FileIdle
    /\ RenderIdle
    /\ LevelIdle
    /\ CheckIdle
    /\ cpc = "start"
    /\ craw \in CellTexts
    /\ cres = ""

\* text = _norm_cell_text(raw)
NormCell ==
    /\ cpc = "start"
    /\ cres' = _norm_cell_text(craw)
    /\ cpc' = "_norm_cell_text"
    /\ UNCHANGED craw
    /\ UNCHANGED <<gridVars, fileVars, renderVars, levelVars, checkVars>>

\* cells.append(_cell_text(cell))
CellText ==
    /\ cpc = "start"
    /\ WellNested(CellElement(craw), 1, <<>>)
    /\ cres' = _cell_text(CellElement(craw), 1)
    /\ cpc' = "_cell_text"
    /\ UNCHANGED craw
    /\ UNCHANGED <<gridVars, fileVars, renderVars, levelVars, checkVars>>

NextCell ==
    \/ NormCell
    \/ CellText

SpecCell == InitCell /\ [][NextCell]_vars

TypeCell == cpc \in {"start", "_norm_cell_text", "_cell_text"} /\ gpc = "idle"

(***************************************************************************)
(* The renderers called on a header row and body rows of normalized cell   *)
(* values                                                                  *)
(***************************************************************************)
RenderRaws == {"", "a", "x|y", "a\nb", "\\"}

RenderValues == { _norm_cell_text(t) : t \in RenderRaws }

RenderGrids ==
    UNION { [1..r -> [1..c -> RenderValues]] :
              r \in 1..MaxRenderRows, c \in 0..MaxRenderCols }

InitRender ==
    /\ GridIdle
    /\ FileIdle
    /\ CellIdle
    /\ LevelIdle
    /\ CheckIdle
    /\ rpc = "start"
    /\ rrows \in RenderGrids
    /\ rtext = ""

\* rebuild_html_tables_to_pipe.py lines 113-134, no title
RenderPipeRows ==
    /\ rpc = "start"
    /\ rtext' = RenderTable(<<>>, rrows, Len(rrows[1]))
    /\ rpc' = "pipe_row"
    /\ UNCHANGED rrows
    /\ UNCHANGED <<gridVars, fileVars, cellVars, levelVars, checkVars>>

\* fix_tables.py lines 102-110; a row there has at least one cell
RenderFmtRows ==
    /\ rpc = "start"
    /\ Len(rrows[1]) >= 1
    /\ rtext' = FmtTable(rrows[1], Tail(rrows), Len(rrows[1]))
    /\ rpc' = "fmt_row"
    /\ UNCHANGED rrows
    /\ UNCHANGED <<gridVars, fileVars, cellVars, levelVars, checkVars>>

NextRender ==
    \/ RenderPipeRows
    \/ RenderFmtRows

SpecRender == InitRender /\ [][NextRender]_vars

TypeRender == rpc \in {"start", "pipe_row", "fmt_row"} /\ gpc = "idle"

(***************************************************************************)
(* fix_specific_tables (fix_tables.py lines 309-367).  The two markers the *)
(* function looks for are written here in ASCII: LevelMark stands for the  *)
(* bold "level" title line and PointsMark for the bold "experience points" *)
(* prefix of the data line; the function only compares them for equality   *)
(* and as a prefix, and neither holds a digit.                             *)
(***************************************************************************)
LevelMark == "**LV**"

PointsMark == "**XP**"

\* str(n) for n >= 0
RECURSIVE ToStr(_)
ToStr(n) ==
    IF n < 10 THEN Char(Digits, n + 1)
    ELSE ToStr(n \div 10) \o Char(Digits, (n % 10) + 1)

\* re.findall(r'\d+', s), searching from position i
RECURSIVE FindNumbersFrom(_, _)
FindNumbersFrom(s, i) ==
    LET a == NextIn(s, i, DigitSet)
    IN  IF a = 0 THEN <<>>
        ELSE <<SubSeq(s, a, RunEnd(s, a, DigitSet))>>
             \o FindNumbersFrom(s, RunEnd(s, a, DigitSet) + 1)

FindNumbers(s) == FindNumbersFrom(s, 1)

\* [f'**{n}**' for n in range(first, first + n)]
header_cols(first, n) == [k \in 1..n |-> Bold(ToStr(first + k - 1))]

level_header(first, n) ==
    "|" \o LevelMark \o "|" \o Join(header_cols(first, n), "|") \o "|"

\* line 337: '|---' + '|'.join(['---'] * max_cols) + '|'
level_separator(n) == "|---" \o Join([k \in 1..n |-> "---"], "|") \o "|"

data_row(numbers) == "|" \o PointsMark \o "|" \o Join(numbers, "|") \o "|"

\* the three lines of one level table whose first level is first
LevelTableLines(first, numbers) ==
    << level_header(first, Len(numbers)), level_separator(Len(numbers)),
       data_row(numbers) >>

\* lines[k] is the title line and lines[k + 1] a data line (k from 1)
IsLevelPair(lines, k) ==
    /\ k >= 1
    /\ k + 1 <= Len(lines)
    /\ Strip(lines[k]) = LevelMark
    /\ StartsWithAt(Strip(lines[k + 1]), 1, PointsMark)

\* the numbers of the data line after lines[k]
PairNumbers(lines, k) == FindNumbers(Strip(lines[k + 1]))

\* the if of lines 322-329 succeeds at lines[k]
EmitsAt(lines, k) ==
    IsLevelPair(lines, k) /\ Len(PairNumbers(lines, k)) >= 2

LevelLines ==
    { LevelMark, " **LV** ", "**XP** 1 3", " **XP** 10 20 30", "**XP** 7", "",
      "x" }

LevelInputs == UNION { [1..n -> LevelLines] : n \in 1..MaxLevelLines }

InitLevel ==
    /\ GridIdle
    /\ FileIdle
    /\ CellIdle
    /\ RenderIdle
    /\ CheckIdle
    /\ lpc = "loop"
    /\ md_lines \in LevelInputs
    /\ li = 1
    /\ fixed_lines = <<>>
    /\ md_fixed = ""

\* lines 322-362: a title line and a data line with two numbers or more
\* become a table, and so does the pair after them
LevelTable ==
    /\ lpc = "loop"
    /\ li <= Len(md_lines)
    /\ EmitsAt(md_lines, li)
    /\ LET first == LevelTableLines(1, PairNumbers(md_lines, li))
       IN  IF EmitsAt(md_lines, li + 2)
           THEN /\ fixed_lines' =
                     fixed_lines \o first \o <<"">>
                     \o LevelTableLines(11, PairNumbers(md_lines, li + 2))
                /\ li' = li + 4
           ELSE /\ fixed_lines' = fixed_lines \o first
                /\ li' = li + 2
    /\ UNCHANGED <<lpc, md_lines, md_fixed>>
    /\ UNCHANGED <<gridVars, fileVars, cellVars, renderVars, checkVars>>

\* lines 364-365: fixed_lines.append(line); i += 1
LevelKeep ==
    /\ lpc = "loop"
    /\ li <= Len(md_lines)
    /\ ~EmitsAt(md_lines, li)
    /\ fixed_lines' = Append(fixed_lines, md_lines[li])
    /\ li' = li + 1
    /\ UNCHANGED <<lpc, md_lines, md_fixed>>
    /\ UNCHANGED <<gridVars, fileVars, cellVars, renderVars, checkVars>>

\* return '\n'.join(fixed_lines)
LevelReturn ==
    /\ lpc = "loop"
    /\ li > Len(md_lines)
    /\ md_fixed' = Join(fixed_lines, "\n")
    /\ lpc' = "done"
    /\ UNCHANGED <<md_lines, li, fixed_lines>>
    /\ UNCHANGED <<gridVars, fileVars, cellVars, renderVars, checkVars>>

NextLevel ==
    \/ LevelTable
    \/ LevelKeep
    \/ LevelReturn

SpecLevel == InitLevel /\ [][NextLevel]_vars

TypeLevel == lpc \in {"loop", "done"} /\ gpc = "idle"

(***************************************************************************)
(* Checklist driver (rebuild_tables_from_checklist.py).  The heading and   *)
(* the notes the driver writes are given here in ASCII, as is the colon    *)
(* between a path and its note; none of them takes part in a comparison    *)
(* other than the equality test of the heading at line 36.  The backquote  *)
(* that encloses a path cannot be written in a string of this language:    *)
(* Tick, an apostrophe, stands for it everywhere.                          *)
(***************************************************************************)
Tick == "'"

DoneHeading == "### DONE"

NoteClean == "no '<table>' left"

NoteRebuilt(table_count) == "rebuilt " \o ToStr(table_count) \o " HTML table"

\* the line breaks of str.splitlines() turned into "\n": "\r\n", "\r",
\* vertical tab, form feed and U+001C..U+001E (and U+0085, U+2028, U+2029,
\* which a string of this language cannot hold)
LineEnds(s) ==
    Replace(Replace(Replace(Replace(Replace(Replace(Replace(s,
        "\r\n", "\n"), "\r", "\n"), "", "\n"), "\f", "\n"), "", "\n"),
        "", "\n"), "", "\n")

\* the lines of a text t whose line breaks are all "\n": a line break at
\* the end starts no line
LinesOf(t) ==
    IF t = "" THEN <<>>
    ELSE IF Char(t, Len(t)) = "\n" THEN Split(SubSeq(t, 1, Len(t) - 1), "\n")
    ELSE Split(t, "\n")

\* str.splitlines()
SplitLines(s) == LinesOf(LineEnds(s))

\* group 1 of TODO_LINE_RE.match(line), "" when the line does not match
TodoPath(line) ==
    LET e == NextAt(line, 8, Tick)
    IN  IF /\ StartsWithAt(line, 1, "- [ ] " \o Tick)
           /\ e > 8
           /\ \A k \in (e + 1)..Len(line) : IsSpace(Char(line, k))
        THEN SubSeq(line, 8, e - 1)
        ELSE ""

IsTodo(line) == TodoPath(line) # ""

parse_todos(checklist) ==
    LET pending == SelectSeq(SplitLines(checklist), IsTodo)
    IN  [k \in 1..Len(pending) |-> TodoPath(pending[k])]

\* s.replace(old, new, 1)
ReplaceFirst(s, old, new) ==
    LET i == NextAt(s, 1, old)
    IN  IF i = 0 THEN s
        ELSE SubSeq(s, 1, i - 1) \o new \o SubSeq(s, i + Len(old), Len(s))

IsDoneHeading(line) == Strip(line) = DoneHeading

mark_done(checklist, rel_path, note) ==
    LET marked == ReplaceFirst(checklist, "- [ ] " \o Tick \o rel_path \o Tick,
                               "- [x] " \o Tick \o rel_path \o Tick)
        md_parts == SplitLines(marked)
        inserted == \E k \in 1..Len(md_parts) : IsDoneHeading(md_parts[k])
        out1 == IF inserted THEN md_parts ELSE md_parts \o <<"", DoneHeading, "">>
        out2 == IF out1 # <<>> /\ Strip(out1[Len(out1)]) # ""
                THEN Append(out1, "") ELSE out1
        out3 == out2 \o << "- " \o Tick \o rel_path \o Tick \o ":" \o note, "" >>
    IN  Replace(Join(out3, "\n"), "\r\n", "\n")

\* html_table_to_pipe(m.group(0)) for the matches ms of src
PipesOf(src, ms) ==
    [k \in 1..Len(ms) |-> html_table_to_pipe(GroupOf(src, ms[k]))]

\* "".join(out) of rebuild_file (lines 145-152) for the text src
RebuiltText(src) ==
    RebuildJoin(src, RebuildFindIter(src, 1), 0,
                PipesOf(src, RebuildFindIter(src, 1)))

\* the files after rebuild_file(rel): a file without a region is not written
\* and keeps its bytes (line 143); the text written has no "\r" and is
\* written with newline="\n"
FilesAfterRebuild(fs, rel) ==
    [p \in DOMAIN fs |->
        IF p = rel /\ RebuildFindIter(ReadText(fs[p]), 1) # <<>>
        THEN RebuiltText(ReadText(fs[p])) ELSE fs[p]]

\* len(TABLE_BLOCK_RE.findall(src))
TableCount(src) == Len(RebuildFindIter(src, 1))

Paths == {"a", "b"}

FileTexts ==
    { "x", "<table><tr><td>a</td></tr></table>",
      "<table><tr><td>a</td></tr></table><table>" }

FileSystems == UNION { [S -> FileTexts] : S \in SUBSET Paths }

ChecklistLines ==
    << "- [ ] 'a'", "- [ ] 'b' ", " - [ ] 'a'", "- [x] 'a'", "### DONE", "" >>

ChecklistLineSeqs ==
    UNION { [1..n -> 1..Len(ChecklistLines)] : n \in 0..MaxChecklistLines }

\* every line of a checklist ends with a line break
Checklists ==
    { Concat([k \in 1..Len(f) |-> ChecklistLines[f[k]] \o "\n"]) :
        f \in ChecklistLineSeqs }

InitCheck ==
    /\ GridIdle
    /\ FileIdle
    /\ CellIdle
    /\ RenderIdle
    /\ LevelIdle
    /\ kpc = "start"
    /\ files \in FileSystems
    /\ checklist_disk \in Checklists
    /\ checklist_text = ""
    /\ todos = <<>>
    /\ ti = 1

\* lines 62-67: nothing pending
CheckNoPending ==
    /\ kpc = "start"
    /\ parse_todos(ReadText(checklist_disk)) = <<>>
    /\ checklist_text' = ReadText(checklist_disk)
    /\ kpc' = "no_pending"
    /\ UNCHANGED <<files, checklist_disk, todos, ti>>
    /\ UNCHANGED <<gridVars, fileVars, cellVars, renderVars, levelVars>>

\* lines 62-63 with pending items
CheckBegin ==
    /\ kpc = "start"
    /\ parse_todos(ReadText(checklist_disk)) # <<>>
    /\ checklist_text' = ReadText(checklist_disk)
    /\ todos' = parse_todos(checklist_text')
    /\ ti' = 1
    /\ kpc' = "loop"
    /\ UNCHANGED <<files, checklist_disk>>
    /\ UNCHANGED <<gridVars, fileVars, cellVars, renderVars, levelVars>>

\* lines 71-72: raise SystemExit("missing: ...")
CheckMissing ==
    /\ kpc = "loop"
    /\ ti <= Len(todos)
    /\ todos[ti] \notin DOMAIN files
    /\ kpc' = "missing"
    /\ UNCHANGED <<files, checklist_disk, checklist_text, todos, ti>>
    /\ UNCHANGED <<gridVars, fileVars, cellVars, renderVars, levelVars>>

\* lines 74-79: the file has no table, the item is marked done
CheckClean ==
    /\ kpc = "loop"
    /\ ti <= Len(todos)
    /\ todos[ti] \in DOMAIN files
    /\ TableCount(ReadText(files[todos[ti]])) = 0
    /\ checklist_text' = mark_done(checklist_text, todos[ti], NoteClean)
    /\ ti' = ti + 1
    /\ UNCHANGED <<kpc, files, checklist_disk, todos>>
    /\ UNCHANGED <<gridVars, fileVars, cellVars, renderVars, levelVars>>

\* lines 81-86: the file is rebuilt; if it still holds "<table" the driver
\* raises SystemExit("still_has_table: ..."), else the item is marked done
CheckRebuild ==
    /\ kpc = "loop"
    /\ ti <= Len(todos)
    /\ todos[ti] \in DOMAIN files
    /\ TableCount(ReadText(files[todos[ti]])) > 0
    /\ files' = FilesAfterRebuild(files, todos[ti])
    /\ IF IFind(ReadText(files'[todos[ti]]), 1, "<table") # 0
       THEN /\ kpc' = "still_has_table"
            /\ UNCHANGED <<checklist_text, ti>>
       ELSE /\ checklist_text' =
                  mark_done(checklist_text, todos[ti],
                            NoteRebuilt(TableCount(ReadText(files[todos[ti]]))))
            /\ ti' = ti + 1
            /\ kpc' = kpc
    /\ UNCHANGED <<checklist_disk, todos>>
    /\ UNCHANGED <<gridVars, fileVars, cellVars, renderVars, levelVars>>

\* lines 88-89: the checklist is written, "done"
CheckWrite ==
    /\ kpc = "loop"
    /\ ti > Len(todos)
    /\ checklist_disk' = checklist_text
    /\ kpc' = "done"
    /\ UNCHANGED <<files, checklist_text, todos, ti>>
    /\ UNCHANGED <<gridVars, fileVars, cellVars, renderVars, levelVars>>

NextCheck ==
    \/ CheckNoPending
    \/ CheckBegin
    \/ CheckMissing
    \/ CheckClean
    \/ CheckRebuild
    \/ CheckWrite

SpecCheck == InitCheck /\ [][NextCheck]_vars

TypeCheck ==
    /\ kpc \in {"start", "loop", "no_pending", "missing", "still_has_table",
                "done"}
    /\ gpc = "idle"

(***************************************************************************)
(* Helpers of the properties                                               *)
(***************************************************************************)
\* the elements of a finite set of integers in increasing order
RECURSIVE Ascending(_)
Ascending(S) ==
    IF S = {} THEN <<>>
    ELSE LET m == CHOOSE x \in S : \A y \in S : x <= y
         IN  <<m>> \o Ascending(S \ {m})

\* the grid is final from here on
GridBuilt == gpc \in {"titles", "emit", "done"} /\ grid # <<>>

NonBlankIdx(r) == { k \in 1..Len(r) : Strip(r[k]) # "" }

\* the classification rule as the specification words it
IsTitleRow(r) ==
    \/ Cardinality(NonBlankIdx(r)) = 1
    \/ /\ Cardinality(NonBlankIdx(r)) >= 2
       /\ \A a, b \in NonBlankIdx(r) : r[a] = r[b]

TitleValue(r) == r[CHOOSE k \in NonBlankIdx(r) : TRUE]

TitleRowIdx == Ascending({ i \in 1..Len(grid) : IsTitleRow(grid[i]) })

TableRowIdx == Ascending({ i \in 1..Len(grid) : ~IsTitleRow(grid[i]) })

OutLines == Split(out, "\n")

IsPipeLine(l) == StartsWithAt(l, 1, "|")

IsTextLine(l) == l # ""

\* the output lines that are pipe-delimited rows, the separator dropped
PipeRowsOfOut ==
    LET pl == SelectSeq(OutLines, IsPipeLine)
    IN  [k \in 1..(Len(pl) - 1) |-> IF k = 1 THEN pl[1] ELSE pl[k + 1]]

(***************************************************************************)
(* C1  After padding the grid is rectangular: every row has the largest    *)
(* row length reached while building, and padding only appends empty       *)
(* strings on the right of a row, leaving its existing cells in place.     *)
(***************************************************************************)
C1_PaddingRectangular ==
    [][ (gpc = "rows" /\ gpc' = "titles") =>
          /\ Len(grid') = Len(grid)
          /\ \E w \in 1..Len(grid) : \A i \in 1..Len(grid) :
                /\ Len(grid[i]) <= Len(grid[w])
                /\ Len(grid'[i]) = Len(grid[w])
          /\ \A i \in 1..Len(grid) : \A j \in 1..Len(grid'[i]) :
                grid'[i][j] = IF j <= Len(grid[i]) THEN grid[i][j] ELSE "" ]_vars

\* a row without cells and without carries was padded up to a two-cell row
C1_Witness ==
    /\ gpc = "titles"
    /\ Len(grid) = 2
    /\ Len(cellsIn[1]) = 2
    /\ cellsIn[2] = <<>>
    /\ \A k \in 1..Len(placed) : placed[k].rowspan = 1 /\ placed[k].colspan = 1
    /\ grid[1][1] # ""
    /\ grid[2] = <<"", "">>

(***************************************************************************)
(* C2  A cell with row-span r and column-span c first placed at (i, j)     *)
(* shows its text at every (i+dr, j+dc), 0 <= dr < r, 0 <= dc < c, of the  *)
(* grid, for the rows the table has.                                       *)
(***************************************************************************)
C2_SpanFillsRectangle ==
    GridBuilt =>
      \A k \in 1..Len(placed) :
        \A dr \in 0..(placed[k].rowspan - 1) :
          \A dc \in 0..(placed[k].colspan - 1) :
            placed[k].row + dr < Len(grid) =>
              grid[placed[k].row + dr + 1][placed[k].col + dc + 1]
                = placed[k].text

(***************************************************************************)
(* C3  <tr><td>A</td><td rowspan="2">B</td></tr><tr><td>C</td></tr> is     *)
(* rendered as the three lines | A | B |, | --- | --- |, | C | B |.        *)
(***************************************************************************)
C3_Input ==
    << << Cell("A", <<>>, <<>>, FALSE), Cell("B", <<"2">>, <<>>, FALSE) >>,
       << Cell("C", <<>>, <<>>, FALSE) >> >>

C3_RowspanExample ==
    (gpc = "done" /\ cellsIn = C3_Input) =>
        out = "| A | B |\n| --- | --- |\n| C | B |\n"

C3_Witness ==
    /\ gpc = "done"
    /\ cellsIn = C3_Input
    /\ grid = << <<"A", "B">>, <<"C", "B">> >>
    /\ titles = <<>>

(***************************************************************************)
(* C4  A row is hoisted as a title exactly when it has one non-blank cell, *)
(* or two or more non-blank cells that are all the same text; the hoisted  *)
(* value is that text.  All other rows, a row without non-blank cell       *)
(* included, stay in the table, and only those rows are rendered as pipe   *)
(* rows.                                                                   *)
(***************************************************************************)
C4_TitleClassification ==
    /\ (gpc \in {"emit", "done"} /\ grid # <<>>) =>
          /\ titles = [k \in 1..Len(TitleRowIdx) |-> TitleValue(grid[TitleRowIdx[k]])]
          /\ body = [k \in 1..Len(TableRowIdx) |-> grid[TableRowIdx[k]]]
    /\ (gpc = "done" /\ grid # <<>> /\ TableRowIdx # <<>>) =>
          PipeRowsOfOut = [k \in 1..Len(TableRowIdx) |-> pipe_row(grid[TableRowIdx[k]])]

\* one row with 2 identical cells, one without non-blank cell, one with a
\* single non-blank cell
C4_Witness ==
    /\ gpc = "done"
    /\ grid = << <<"A", "A">>, <<"", "">>, <<"C", "">> >>
    /\ titles = <<"A", "C">>
    /\ body = << <<"", "">> >>

(***************************************************************************)
(* C5  When every grid row is a title, the output is the hoisted titles as *)
(* bold lines in grid order and nothing else: no pipe row, no separator,   *)
(* no header, no body.                                                     *)
(***************************************************************************)
C5_OnlyTitles ==
    (gpc = "done" /\ grid # <<>> /\ \A i \in 1..Len(grid) : IsTitleRow(grid[i])) =>
        /\ body = <<>>
        /\ SelectSeq(OutLines, IsTextLine)
             = [i \in 1..Len(grid) |-> Bold(TitleValue(grid[i]))]
        /\ \A k \in 1..Len(OutLines) :
              /\ ~IsPipeLine(OutLines[k])
              /\ \A i \in 1..Len(OutLines[k]) : ~StartsWithAt(OutLines[k], i, "---")

C5_Witness ==
    /\ gpc = "done"
    /\ Len(grid) = 3
    /\ \A i \in 1..Len(grid) : IsTitleRow(grid[i])
    /\ grid[1] # grid[2]
    /\ out # ""

(***************************************************************************)
(* C6  A table that yields no cell at all (no row, or only rows without    *)
(* cells) is rendered as the empty string: no header or separator line is  *)
(* emitted for a table with zero columns.                                  *)
(***************************************************************************)
C6_EmptyTableRendersEmpty ==
    (gpc = "done" /\ CountCells(cellsIn) = 0) => out = ""

(***************************************************************************)
(* Helpers of the driver properties                                        *)
(***************************************************************************)
Contains(t, p) == NextAt(t, 1, p) # 0

FixDone == fpc = "done" /\ result.driver = "fix_file"

RebuildDone == fpc = "done" /\ result.driver = "rebuild_file"

Region(k) == GroupOf(text, blocks[k])

\* the document as a reader of the file sees it after the call
FinalText == ReadText(disk)

\* the replacement of every match, in document order
FixPipes == [k \in 1..Len(blocks) |-> TryConvert(Region(k))]

RebuildPipes == [k \in 1..Len(blocks) |-> html_table_to_pipe(Region(k))]

\* offset after the last complete region
LastEnd == IF blocks = <<>> THEN 0 ELSE blocks[Len(blocks)].end

\* a table start marker of the driver's pattern begins at position p
StartMarkerAt(p) ==
    IF result.driver = "fix_file" THEN IMatchAt(text, p, "<table>")
    ELSE FindOpen(text, p) = p

(***************************************************************************)
(* C7  A region whose conversion raises is found unchanged, as the very    *)
(* text that was matched, in the document fix_file leaves behind.          *)
(***************************************************************************)
C7_FailedRegionVerbatim ==
    FixDone =>
      \A k \in 1..Len(blocks) :
        XmlRaises(Region(k)) => Contains(FinalText, Region(k))

(***************************************************************************)
(* C8  A region that fails to convert does not end fix_file: the result    *)
(* reports all matched regions as found and exactly the regions replaced   *)
(* by different text as converted, so 0 <= converted <= found and          *)
(* found - converted is the number of regions left as they were.           *)
(***************************************************************************)
C8_FailureIsCounted ==
    FixDone =>
      /\ result.tables_found = Len(FixFindIter(text, 1))
      /\ result.tables_converted
           = Cardinality({ k \in 1..Len(blocks) : FixPipes[k] # Region(k) })
      /\ 0 <= result.tables_converted
      /\ result.tables_converted <= result.tables_found
      /\ result.tables_found - result.tables_converted
           = Cardinality({ k \in 1..Len(blocks) : FixPipes[k] = Region(k) })
      /\ \A k \in 1..Len(blocks) :
            ~XmlRaises(Region(k)) => FixPipes[k] = table_html_to_pipe(Region(k))

\* the second region does not parse and is visited first, the first region
\* is converted after it
C8_Witness ==
    /\ FixDone
    /\ Len(blocks) = 2
    /\ XmlRaises(Region(2))
    /\ ~XmlRaises(Region(1))
    /\ result.tables_found = 2
    /\ result.tables_converted = 1

(***************************************************************************)
(* C9  The text from a table start marker that has no end marker, lying    *)
(* after every complete region, is still in the document after fix_file    *)
(* and after rebuild_file, whatever complete regions precede it.           *)
(***************************************************************************)
C9_UnmatchedStartUntouched ==
    fpc = "done" =>
      \A p \in (LastEnd + 1)..Len(text) :
        StartMarkerAt(p) => Contains(FinalText, SubSeq(text, p, Len(text)))

(***************************************************************************)
(* C10  While fix_file replaces the matches last to first, the span of     *)
(* every match not yet replaced still holds its original text, and after   *)
(* the loop the document is the left-to-right concatenation of             *)
(* rebuild_file: unmatched text in order, each region replaced by its own  *)
(* conversion.                                                             *)
(***************************************************************************)
C10_ReverseKeepsOffsets ==
    /\ fpc = "fix_loop" =>
         \A k \in bi..Len(blocks) :
            Slice(new_text, FixOrder(blocks)[k].start, FixOrder(blocks)[k].end)
              = GroupOf(text, FixOrder(blocks)[k])
    /\ (fpc = "fix_loop" /\ bi > Len(blocks)) =>
         new_text = RebuildJoin(text, blocks, 0, FixPipes)
    /\ RebuildDone /\ result.changed =>
         new_text = RebuildJoin(text, blocks, 0, RebuildPipes)

\* two regions, both replaced by text of another length, text between them
C10_Witness ==
    /\ fpc = "fix_loop"
    /\ bi > Len(blocks)
    /\ Len(blocks) = 2
    /\ converted = 2
    /\ blocks[1].end < blocks[2].start
    /\ Len(FixPipes[1]) # Len(Region(1))

(***************************************************************************)
(* Helpers of the output properties                                        *)
(***************************************************************************)
IsBoldLine(l) == StartsWithAt(l, 1, "**")

PipeLinesOfOut == SelectSeq(OutLines, IsPipeLine)

BoldLinesOfOut == SelectSeq(OutLines, IsBoldLine)

(***************************************************************************)
(* C11  Every grid row has exactly one role: the hoisted titles, the       *)
(* header and the body rows together are as many as the grid rows and each *)
(* is emitted once (one bold line per title, one pipe line per other row   *)
(* plus the separator); there is at most one header, and it is the first   *)
(* grid row that is not a title, with or without a header-marked cell.     *)
(***************************************************************************)
C11_RowRoles ==
    (gpc = "done" /\ grid # <<>>) =>
        /\ Len(titles) + Len(body) = Len(grid)
        /\ Len(titles) = Len(TitleRowIdx)
        /\ Len(BoldLinesOfOut) = Len(titles)
        /\ body = <<>> => PipeLinesOfOut = <<>>
        /\ body # <<>> =>
              /\ Len(PipeLinesOfOut) = 1 + 1 + (Len(body) - 1)
              /\ PipeLinesOfOut[1] = pipe_row(grid[TableRowIdx[1]])
              /\ \A k \in 2..Len(body) :
                    PipeLinesOfOut[k + 1] = pipe_row(grid[TableRowIdx[k]])

\* a title row above the table, no header-marked cell; the second grid row
\* is the header, the third a body row
C11_Witness ==
    /\ gpc = "done"
    /\ Len(grid) = 3
    /\ ~header_hint
    /\ IsTitleRow(grid[1])
    /\ Len(titles) = 1
    /\ Len(body) = 2
    /\ PipeLinesOfOut[1] = pipe_row(grid[2])

\* the pipe characters of a line that are not preceded by a backslash
UnescapedPipes(l) ==
    { i \in 1..Len(l) : Char(l, i) = "|" /\ (i = 1 \/ Char(l, i - 1) # "\\") }

\* columns of a pipe line: one less than its unescaped pipe characters
ColumnCount(l) == Cardinality(UnescapedPipes(l)) - 1

\* occurrences of "---" in a separator line
DashGroups(l) == Cardinality({ i \in 1..Len(l) : StartsWithAt(l, i, "---") })

(***************************************************************************)
(* C12  In an emitted pipe table the header line, the separator line and   *)
(* every body line have the same number of columns, counted by the pipe    *)
(* characters not preceded by a backslash, and that number is the grid     *)
(* width; the separator holds one "---" per column.                        *)
(***************************************************************************)
C12_UniformColumns ==
    (gpc = "done" /\ body # <<>>) =>
        /\ \A k \in 1..Len(PipeLinesOfOut) :
              ColumnCount(PipeLinesOfOut[k]) = max_cols
        /\ DashGroups(PipeLinesOfOut[2]) = max_cols

\* the same statement for tables that have at least one column
C12_UniformColumnsFromOneColumn ==
    (gpc = "done" /\ body # <<>> /\ max_cols >= 1) =>
        /\ \A k \in 1..Len(PipeLinesOfOut) :
              ColumnCount(PipeLinesOfOut[k]) = max_cols
        /\ DashGroups(PipeLinesOfOut[2]) = max_cols

\* the same statement for the regions table_html_to_pipe converts
C12_FixSideUniformColumns ==
    (fpc = "fix_loop" /\ bi <= Len(blocks)) =>
        LET table_html == GroupOf(text, FixOrder(blocks)[bi])
            ls == IF XmlRaises(table_html) THEN <<>>
                  ELSE SelectSeq(Split(table_html_to_pipe(table_html), "\n"),
                                 IsPipeLine)
        IN  \A k \in 1..Len(ls) :
              /\ ColumnCount(ls[k]) = ColumnCount(ls[1])
              /\ ColumnCount(ls[k]) >= 1
              /\ DashGroups(ls[2]) = ColumnCount(ls[1])

\* a bold line and a blank line for each title row, in grid order
RECURSIVE ExpectedTitleLines(_)
ExpectedTitleLines(idx) ==
    IF idx = <<>> THEN <<>>
    ELSE <<Bold(TitleValue(grid[Head(idx)])), "">> \o ExpectedTitleLines(Tail(idx))

(***************************************************************************)
(* C13  When some grid row is not a title, the output is, line by line:    *)
(* for each title row in grid order its bold line and a blank line, then   *)
(* the first non-title row as header, the separator with one "---" per     *)
(* column, and the other non-title rows in grid order.  With a single      *)
(* non-title row the header and the separator are still emitted.           *)
(***************************************************************************)
C13_OutputOrder ==
    (gpc = "done" /\ grid # <<>> /\ TableRowIdx # <<>>) =>
        OutLines =
            ExpectedTitleLines(TitleRowIdx)
            \o << pipe_row(grid[TableRowIdx[1]]),
                  pipe_row([k \in 1..Len(grid[1]) |-> "---"]) >>
            \o [k \in 1..(Len(TableRowIdx) - 1) |-> pipe_row(grid[TableRowIdx[k + 1]])]
            \o << "" >>

\* one title above a table that has a header and no data row
C13_Witness ==
    /\ gpc = "done"
    /\ Len(grid) = 2
    /\ Len(titles) = 1
    /\ Len(body) = 1
    /\ Len(PipeLinesOfOut) = 2
    /\ OutLines[2] = ""

\* an attribute that is absent, empty, not an integer, zero or negative
UnusableSpan(attr) ==
    \/ attr = <<>>
    \/ attr[1] = ""
    \/ ~IsIntLiteral(attr[1])
    \/ IntOf(attr[1]) <= 0

(***************************************************************************)
(* C14  The spans the grid builder works with are at least 1.  An          *)
(* attribute that is absent, empty, zero, negative or not an integer       *)
(* counts as 1 and the cell is placed like any other: every cell is        *)
(* appended at least once (column-span times), and every carry in the span *)
(* map has a remaining count of at least 1.                                *)
(***************************************************************************)
C14_SpansAtLeastOne ==
    [][ /\ \A c \in DOMAIN span_map' : span_map'[c].remaining >= 1
        /\ (gpc = "cells" /\ ci' = ci + 1) =>
              LET cell == cells[ci]
                  p == placed'[Len(placed')]
              IN  /\ gpc' = "cells"
                  /\ Len(placed') = Len(placed) + 1
                  /\ p.rowspan >= 1
                  /\ p.colspan >= 1
                  /\ UnusableSpan(cell.rowspan) => p.rowspan = 1
                  /\ UnusableSpan(cell.colspan) => p.colspan = 1
                  /\ Len(row') >= Len(row) + 1
                  /\ Len(row') = p.col + p.colspan
                  /\ \A j \in 1..p.colspan : row'[p.col + j] = p.text
                  /\ p.rowspan = 1 =>
                        \A j \in 0..(p.colspan - 1) :
                            (p.col + j) \in DOMAIN span_map'
                               => (p.col + j) \in DOMAIN span_map ]_vars

\* a row in which a cell with rowspan="-1" colspan="" and a cell with
\* rowspan="0" colspan="x" have both been placed
C14_Witness ==
    /\ gpc = "cells"
    /\ \E a, b \in 1..(ci - 1) :
          /\ cells[a].rowspan = <<"-1">> /\ cells[a].colspan = <<"">>
          /\ cells[b].rowspan = <<"0">> /\ cells[b].colspan = <<"x">>
    /\ Len(row) >= 2
    /\ \A k \in 1..Len(placed) : placed[k].rowspan = 1 /\ placed[k].colspan = 1

\* a normalizer has returned
CellDone == cpc \in {"_norm_cell_text", "_cell_text"}

(***************************************************************************)
(* C15  The text returned by _norm_cell_text and by _cell_text is a single *)
(* line: it holds no line feed and no carriage return, and every pipe      *)
(* character in it directly follows a backslash.                           *)
(***************************************************************************)
C15_SingleLineEscaped ==
    CellDone =>
        \A i \in 1..Len(cres) :
            /\ Char(cres, i) \notin {"\n", "\r"}
            /\ Char(cres, i) = "|" => (i > 1 /\ Char(cres, i - 1) = "\\")

\* a cell text with a pipe and a carriage return between two parts
C15_Witness ==
    /\ cpc = "_norm_cell_text"
    /\ Contains(craw, "|")
    /\ Contains(craw, "\r")
    /\ Contains(cres, "<br>")
    /\ Contains(cres, "\\|")

\* a line of separator decoration: only dashes, asterisks or underscores,
\* repeated
IsDecoration(l) ==
    /\ Len(Strip(l)) >= 2
    /\ \A i \in 1..Len(Strip(l)) : Char(Strip(l), i) \in {"-", "*", "_"}

\* the pieces of the returned text between line-break markers
Segments == Split(cres, "<br>")

(***************************************************************************)
(* C16  The returned cell text holds no line that is empty after trimming  *)
(* and no line of pure separator decoration, whether first, interior or    *)
(* last: there are never two adjacent line-break markers nor an empty      *)
(* piece between markers, and a cell without surviving line gives the      *)
(* empty string, never the marker alone.                                   *)
(***************************************************************************)
C16_EmptyAndDecorationLinesDropped ==
    CellDone =>
        /\ cres # "<br>"
        /\ ~Contains(cres, "<br><br>")
        /\ cres # "" =>
              \A k \in 1..Len(Segments) :
                  /\ Strip(Segments[k]) # ""
                  /\ ~IsDecoration(Segments[k])

\* the part of the statement about empty lines, for _cell_text alone
C16_CellTextDropsEmptyLines ==
    cpc = "_cell_text" =>
        /\ cres # "<br>"
        /\ ~Contains(cres, "<br><br>")
        /\ cres # "" => \A k \in 1..Len(Segments) : Strip(Segments[k]) # ""

(***************************************************************************)
(* A simple pipe-table parser                                              *)
(***************************************************************************)
\* the fields of a pipe line: the text between consecutive unescaped pipes,
\* trimmed
FieldsOf(l) ==
    LET ps == Ascending(UnescapedPipes(l))
    IN  [k \in 1..(Len(ps) - 1) |-> Strip(SubSeq(l, ps[k] + 1, ps[k + 1] - 1))]

\* undoing the pipe escape
Unescape(v) == Replace(v, "\\|", "|")

\* the rendered lines without the separator
RenderedRowLines ==
    LET ls == SelectSeq(Split(rtext, "\n"), IsPipeLine)
    IN  [k \in 1..(Len(ls) - 1) |-> IF k = 1 THEN ls[1] ELSE ls[k + 1]]

(***************************************************************************)
(* C17  Round trip: the rendered header and body lines, split on the pipes *)
(* not preceded by a backslash, each field trimmed and its pipe escape     *)
(* undone, give back the cell value of every row and column position of    *)
(* the rows that were rendered, empty cells and cells with pipes included. *)
(***************************************************************************)
C17_RoundTrip ==
    rpc \in {"pipe_row", "fmt_row"} =>
        /\ Len(RenderedRowLines) = Len(rrows)
        /\ \A i \in 1..Len(rrows) : \A j \in 1..Len(rrows[i]) :
              /\ j <= Len(FieldsOf(RenderedRowLines[i]))
              /\ FieldsOf(RenderedRowLines[i])[j] = rrows[i][j]
              /\ Unescape(FieldsOf(RenderedRowLines[i])[j]) = Unescape(rrows[i][j])
        /\ \A i \in 1..Len(rrows) :
              Len(rrows[i]) >= 1 => Len(FieldsOf(RenderedRowLines[i])) = Len(rrows[i])

\* two rows of two cells with an empty cell, a cell with a pipe and a cell
\* that ends in a backslash
C17_Witness ==
    /\ rpc = "pipe_row"
    /\ Len(rrows) = 2
    /\ rrows[1] = <<"", "x\\|y">>
    /\ rrows[2][1] = "\\"
    /\ Unescape(FieldsOf(RenderedRowLines[1])[2]) = "x|y"

\* the document of fix_file after the substitutions, before lines 138-139
Substituted == RebuildJoin(text, blocks, 0, FixPipes)

\* a sequence of lines with every run of empty lines cut to two at most;
\* seen is the number of empty lines directly before the head
RECURSIVE CapBlankRuns(_, _)
CapBlankRuns(ls, seen) ==
    IF ls = <<>> THEN <<>>
    ELSE IF Head(ls) # "" THEN <<Head(ls)>> \o CapBlankRuns(Tail(ls), 0)
    ELSE IF seen >= 2 THEN CapBlankRuns(Tail(ls), seen)
    ELSE <<"">> \o CapBlankRuns(Tail(ls), seen + 1)

\* the final document without its last character
FinalBody == SubSeq(FinalText, 1, Len(FinalText) - 1)

(***************************************************************************)
(* C18  When fix_file has found a table region, the document it leaves     *)
(* has no three empty lines in a row: its lines are those of the           *)
(* substituted document, trimmed at both ends, with every run of three or  *)
(* more empty lines cut to exactly two; and it ends with exactly one line  *)
(* break.                                                                  *)
(***************************************************************************)
C18_BlankRunsAndTrailingBreak ==
    (FixDone /\ blocks # <<>>) =>
        /\ ~Contains(FinalText, "\n\n\n\n")
        /\ Len(FinalText) >= 1
        /\ Char(FinalText, Len(FinalText)) = "\n"
        /\ Len(FinalText) >= 2 => Char(FinalText, Len(FinalText) - 1) # "\n"
        /\ Split(FinalBody, "\n") = CapBlankRuns(Split(Strip(Substituted), "\n"), 0)

\* a run of more than three empty lines inside the document and line breaks
\* at its end
C18_Witness ==
    /\ FixDone
    /\ blocks # <<>>
    /\ Contains(Strip(Substituted), "\n\n\n\n\n")
    /\ Contains(FinalText, "\n\n\n")
    /\ Char(Substituted, Len(Substituted)) = "\n"
    /\ Char(Substituted, Len(Substituted) - 1) = "\n"

\* sum of the normalized column-spans of the cells of one input row
RECURSIVE ColspanSum(_)
ColspanSum(cs) ==
    IF cs = <<>> THEN 0 ELSE SpanOf(Head(cs).colspan) + ColspanSum(Tail(cs))

\* the largest ColspanSum of the input rows
RECURSIVE MaxColspanSum(_)
MaxColspanSum(rows) ==
    IF rows = <<>> THEN 0
    ELSE Max(ColspanSum(Head(rows)), MaxColspanSum(Tail(rows)))

\* columns (from 0) of grid row i taken by the row's own cells
OwnCols(i) ==
    UNION { placed[k].col..(placed[k].col + placed[k].colspan - 1) :
              k \in { q \in 1..Len(placed) : placed[q].row = i - 1 } }

\* columns of row i, n cells long before padding, filled from a span above
CarriedCols(i, n) == (0..(n - 1)) \ OwnCols(i)

\* the rows as built, before padding
Unpadded == BuildGrid(cellsIn, EmptySpanMap)

(***************************************************************************)
(* C19 as stated: the width of the grid is the largest sum, over the input *)
(* rows, of the normalized column-spans of the row's cells.                *)
(***************************************************************************)
C19_WidthIsMaxColspanSum ==
    GridBuilt =>
        \A i \in 1..Len(grid) : Len(grid[i]) = MaxColspanSum(cellsIn)

(***************************************************************************)
(* C19 amended: the width of the grid is the largest number of columns a   *)
(* row takes, which is the sum of the normalized column-spans of its cells *)
(* plus the number of cells carried into it from row-spans above; it is    *)
(* never below the largest column-span sum and equals it when no cell has  *)
(* a row-span above 1.                                                     *)
(***************************************************************************)
C19_WidthCountsCarries ==
    /\ gpc = "rows" =>
          \A i \in 1..Len(grid) :
              Len(grid[i]) = ColspanSum(cellsIn[i])
                             + Cardinality(CarriedCols(i, Len(grid[i])))
    /\ GridBuilt =>
          /\ \A i \in 1..Len(grid) : Len(grid[i]) = max_cols
          /\ \E i \in 1..Len(grid) :
                max_cols = ColspanSum(cellsIn[i])
                           + Cardinality(CarriedCols(i, Len(Unpadded[i])))
          /\ \A i \in 1..Len(grid) :
                max_cols >= ColspanSum(cellsIn[i])
                            + Cardinality(CarriedCols(i, Len(Unpadded[i])))
          /\ max_cols >= MaxColspanSum(cellsIn)
          /\ (\A k \in 1..Len(placed) : placed[k].rowspan = 1)
                => max_cols = MaxColspanSum(cellsIn)

\* a carried cell makes the second row wider than any column-span sum
C19_Witness ==
    /\ GridBuilt
    /\ Len(grid) = 2
    /\ max_cols = 3
    /\ MaxColspanSum(cellsIn) = 2
    /\ CarriedCols(2, 3) = {0}

\* the cells of row' at positions a+1..b (columns a..b-1) are the values of
\* the carries registered at those columns
CarriesFill(a, b) ==
    \A j \in (a + 1)..b :
        /\ (j - 1) \in DOMAIN span_map
        /\ row'[j] = span_map[j - 1].text

\* the three kinds of step that extend a row
StartsRow == gpc = "rows" /\ gpc' = "cells"

PlacesCell == gpc = "cells" /\ ci' = ci + 1

EndsRow == gpc = "cells" /\ gpc' = "rows"

LastPlaced == placed'[Len(placed')]

\* the row's length is the column counter, carried values stand at their
\* carry's column, the first copy of a cell goes to a column without carry
CarriesAndFirstCopies ==
    /\ Len(row') = col'
    /\ StartsRow =>
          /\ CarriesFill(0, Len(row'))
          /\ Len(row') \notin DOMAIN span_map
    /\ PlacesCell =>
          /\ SubSeq(row', 1, Len(row)) = row
          /\ LastPlaced.col >= Len(row)
          /\ CarriesFill(Len(row), LastPlaced.col)
          /\ LastPlaced.col \notin DOMAIN span_map
          /\ row'[LastPlaced.col + 1] = LastPlaced.text
          /\ Len(row') = LastPlaced.col + LastPlaced.colspan
    /\ EndsRow =>
          /\ SubSeq(row', 1, Len(row)) = row
          /\ CarriesFill(Len(row), Len(row'))
          /\ Len(row') \notin DOMAIN span_map

\* no column a genuine cell is appended at, first copy or further copy, has
\* an active carry
NoCopyOverCarry ==
    PlacesCell =>
        \A c \in LastPlaced.col..(LastPlaced.col + LastPlaced.colspan - 1) :
            c \notin DOMAIN span_map

(***************************************************************************)
(* C20  While a row is built its length equals the column counter, every   *)
(* carried value is appended at the column its carry is registered at,     *)
(* the first copy of a genuine cell is appended at a column without active *)
(* carry, and a genuine cell never overwrites or passes over an active     *)
(* carry.                                                                  *)
(***************************************************************************)
C20_RowBuildDiscipline == [][CarriesAndFirstCopies /\ NoCopyOverCarry]_vars

\* C20 without its last part, which is the part that fails
C20_CarriesAndFirstCopies == [][CarriesAndFirstCopies]_vars

\* the columns at which the trailing fill_spans of a row appended a carry
FlushedCols == col..(Len(row') - 1)

\* the carry of column c was consumed by the trailing fill_spans of the row
FlushedAt(c) ==
    /\ c \in FlushedCols
    /\ c \in DOMAIN span_map
    /\ row'[c + 1] = span_map[c].text
    /\ c \in DOMAIN span_map' => span_map'[c].remaining = span_map[c].remaining - 1

(***************************************************************************)
(* C21  When a row is appended to the grid, every carry registered by an   *)
(* earlier row at a column at or after the column reached by the row's     *)
(* last genuine cell has been consumed for the row: the span map is left   *)
(* with no such carry that the trailing flush did not append.              *)
(***************************************************************************)
C21_TrailingCarriesFlushed ==
    [][ EndsRow =>
          \A c \in DOMAIN span_map : c >= col => FlushedAt(c) ]_vars

\* C21 for the carries that start at the column the row has reached: the
\* contiguous ones are flushed
C21_ContiguousCarriesFlushed ==
    [][ EndsRow =>
          \A c \in DOMAIN span_map :
              (c >= col /\ \A d \in col..c : d \in DOMAIN span_map)
                  => FlushedAt(c) ]_vars

\* the columns whose carry a step of the row loop appended to the row
ConsumedCols ==
    IF StartsRow THEN 0..(col' - 1)
    ELSE IF PlacesCell THEN col..(LastPlaced.col - 1)
    ELSE IF EndsRow THEN col..(col' - 1)
    ELSE {}

\* the columns a step of the row loop gave to a genuine cell
PlacedCols ==
    IF PlacesCell
    THEN LastPlaced.col..(LastPlaced.col + LastPlaced.colspan - 1)
    ELSE {}

\* column c holds the same carry, or no carry, before and after the step
CarryKept(c) ==
    /\ c \in DOMAIN span_map' <=> c \in DOMAIN span_map
    /\ c \in DOMAIN span_map => span_map'[c] = span_map[c]

\* what one step does to the span map
CarrySteps ==
    /\ \A c \in ConsumedCols :
          /\ c \in DOMAIN span_map
          /\ row'[c + 1] = span_map[c].text
          /\ IF span_map[c].remaining = 1
             THEN c \notin DOMAIN span_map'
             ELSE /\ c \in DOMAIN span_map'
                  /\ span_map'[c] = SpanCell(span_map[c].remaining - 1,
                                             span_map[c].text)
    /\ \A c \in PlacedCols :
          IF LastPlaced.rowspan > 1
          THEN /\ c \in DOMAIN span_map'
               /\ span_map'[c] = SpanCell(LastPlaced.rowspan - 1, LastPlaced.text)
          ELSE CarryKept(c)
    /\ \A c \in ((DOMAIN span_map) \cup (DOMAIN span_map'))
                    \ (ConsumedCols \cup PlacedCols) : CarryKept(c)

(***************************************************************************)
(* C22  Between the steps of grid construction every carry of the span map *)
(* has a remaining count of at least 1: a carry is registered with count   *)
(* row-span - 1 and only for a row-span above 1, loses exactly one each    *)
(* time its value is appended to a row, and leaves the map in the step in  *)
(* which its count reaches zero; the map of a conversion starts empty.     *)
(***************************************************************************)
C22_CarryLifetime ==
    /\ [](\A c \in DOMAIN span_map : span_map[c].remaining >= 1)
    /\ []((gpc = "rows" /\ cellsIn = <<>>) => span_map = EmptySpanMap)
    /\ [][CarrySteps]_vars

\* a cell of row-span 3 was carried into two further rows: its carries were
\* registered with count 2, went down to 1 and left the map at zero
C22_Witness ==
    /\ gpc = "rows"
    /\ Len(grid) = 3
    /\ Len(placed) = 1
    /\ placed[1].rowspan = 3
    /\ placed[1].colspan = 2
    /\ grid[2] = <<placed[1].text, placed[1].text>>
    /\ grid[3] = grid[2]
    /\ span_map = EmptySpanMap

\* the matches are those of fix_file's pattern
FixLocating == fpc \in {"fix_loop", "fix_write"} \/ (FixDone /\ blocks # <<>>)

\* the matches are those of rebuild_file's pattern
RebuildLocating == fpc = "rebuild_loop" \/ (RebuildDone /\ blocks # <<>>)

\* a table start marker of the running driver begins at position p of text
StartsAt(p) ==
    IF FixLocating THEN IMatchAt(text, p, "<table>") ELSE FindOpen(text, p) = p

\* the position after the start marker that begins at p
AfterStart(p) == IF FixLocating THEN p + 7 ELSE p + 6

\* a table end marker of the running driver begins at position j and has
\* its last character at position q
EndMarker(j, q) ==
    IF FixLocating THEN IMatchAt(text, j, "</table>") /\ q = j + 7
    ELSE IMatchAt(text, j, "</table") /\ CloseEnd(text, j + 7) = q

\* regions in document order, none overlapping the next
RegionsInOrder ==
    /\ \A k \in 1..Len(blocks) : blocks[k].start < blocks[k].end
    /\ \A k \in 1..(Len(blocks) - 1) : blocks[k].end <= blocks[k + 1].start

\* region k begins at a start marker and ends with the first end marker
\* that begins after that start marker
RegionFirstEnd(k) ==
    LET s == blocks[k].start + 1
        e == blocks[k].end
    IN  /\ StartsAt(s)
        /\ \E j \in AfterStart(s)..e : EndMarker(j, e)
        /\ \A j \in AfterStart(s)..e : \A q \in j..(e - 1) : ~EndMarker(j, q)

\* no table start marker begins strictly inside region k
RegionNotNested(k) ==
    \A p \in (blocks[k].start + 2)..blocks[k].end : ~StartsAt(p)

(***************************************************************************)
(* C23  The regions the block locator returns are in document order and    *)
(* pairwise non-overlapping, each begins at a table start marker and ends  *)
(* at the first table end marker after it, and no region has another       *)
(* table start marker strictly inside it.                                  *)
(***************************************************************************)
C23_RegionsShortestNonNested ==
    (FixLocating \/ RebuildLocating) =>
        /\ RegionsInOrder
        /\ \A k \in 1..Len(blocks) : RegionFirstEnd(k) /\ RegionNotNested(k)

\* C23 without its last part, which is the part that fails
C23_RegionsOrderedFirstEnd ==
    (FixLocating \/ RebuildLocating) =>
        /\ RegionsInOrder
        /\ \A k \in 1..Len(blocks) : RegionFirstEnd(k)

\* the genuine cell whose carry stands at column c: the last cell placed
\* over column c with a row-span above 1 (line 80 replaces an older carry)
Registrant(c) ==
    MaxPos({ k \in 1..Len(placed) :
               /\ placed[k].rowspan > 1
               /\ c \in placed[k].col..(placed[k].col + placed[k].colspan - 1) })

\* the last row (counted from 0) the cell that registered column c's carry
\* spans
LastSpannedRow(c) == placed[Registrant(c)].row + placed[Registrant(c)].rowspan - 1

(***************************************************************************)
(* C24  A cell with row-span r placed in row i influences rows i..i+r-1    *)
(* only: once row i+r-1 has been processed the span map holds no carry     *)
(* registered by the cell, and no step appends the cell's carried text to  *)
(* row i+r or a later row.                                                 *)
(***************************************************************************)
C24_SpanBoundedInfluence ==
    /\ [](gpc = "rows" =>
            \A c \in DOMAIN span_map : Len(grid) <= LastSpannedRow(c))
    /\ [][\A c \in ConsumedCols : Len(grid) <= LastSpannedRow(c)]_vars

\* the step emits at least one level table
EmitsLevelTable == lpc = "loop" /\ li' >= li + 2

\* the lines the step appended to fixed_lines
Emitted == SubSeq(fixed_lines', Len(fixed_lines) + 1, Len(fixed_lines'))

\* number of numbers of the data line of the first / second pair of the step
FirstN == Len(PairNumbers(md_lines, li))

SecondN == Len(PairNumbers(md_lines, li + 2))

\* the three lines from position k of the emitted lines have c columns each
ThreeLinesOf(k, c) ==
    /\ ColumnCount(Emitted[k]) = c
    /\ ColumnCount(Emitted[k + 1]) = c
    /\ ColumnCount(Emitted[k + 2]) = c

(***************************************************************************)
(* C25  Every level table fix_specific_tables emits for a data line with   *)
(* N >= 2 numbers has N + 1 columns in its header line, its separator line *)
(* and its data line, the table of the second segment included.            *)
(***************************************************************************)
C25_LevelTableWellFormed ==
    [][ EmitsLevelTable =>
          /\ Len(Emitted) \in {3, 7}
          /\ FirstN >= 2
          /\ ThreeLinesOf(1, FirstN + 1)
          /\ Len(Emitted) = 7 =>
                /\ Emitted[4] = ""
                /\ SecondN >= 2
                /\ ThreeLinesOf(5, SecondN + 1) ]_vars

\* what holds instead: header and data line have N + 1 columns, the
\* separator has N
C25_SeparatorOneColumnShort ==
    [][ EmitsLevelTable =>
          /\ Len(Emitted) \in {3, 7}
          /\ ColumnCount(Emitted[1]) = FirstN + 1
          /\ ColumnCount(Emitted[2]) = FirstN
          /\ ColumnCount(Emitted[3]) = FirstN + 1
          /\ Len(Emitted) = 7 =>
                /\ ColumnCount(Emitted[5]) = SecondN + 1
                /\ ColumnCount(Emitted[6]) = SecondN
                /\ ColumnCount(Emitted[7]) = SecondN + 1 ]_vars

\* a step of the driver that calls mark_done
MarksDone == kpc = "loop" /\ ti' = ti + 1

\* the first line of the checklist at hand that is pending for the path of
\* the item being visited, 0 when there is none
PendingLineOf ==
    MinPos({ k \in 1..Len(SplitLines(checklist_text)) :
               TodoPath(SplitLines(checklist_text)[k]) = todos[ti] })

\* line l with its empty checkbox ticked
Ticked(l) == "- [x] " \o SubSeq(l, 7, Len(l))

\* lines a..b of the checklist after the step
AddedLines(a) ==
    SubSeq(SplitLines(checklist_text'), a, Len(SplitLines(checklist_text')))

IsNoteLine(l) ==
    StartsWithAt(l, 1, "- " \o Tick \o todos[ti] \o Tick \o ":")

\* mark_done ticked the pending line it was called for, left the other
\* lines as they were and added one note line after them
MarkedExactly ==
    LET before == SplitLines(checklist_text)
        after == SplitLines(checklist_text')
        j == PendingLineOf
    IN  /\ j # 0
        /\ Len(after) > Len(before)
        /\ \A k \in 1..Len(before) :
              after[k] = IF k = j THEN Ticked(before[k]) ELSE before[k]
        /\ Cardinality({ k \in (Len(before) + 1)..Len(after) :
                           IsNoteLine(after[k]) }) = 1
        /\ \A k \in (Len(before) + 1)..Len(after) :
              IsNoteLine(after[k]) \/ after[k] \in {"", DoneHeading}

(***************************************************************************)
(* C26  When the checklist driver ends with "done", every item that was    *)
(* pending at the start is marked in the checklist it wrote: each call of  *)
(* mark_done ticks the pending line it was called for and no other line    *)
(* and appends one note line, and parse_todos finds nothing pending in the *)
(* written checklist.  When the driver aborts, the checklist file is as it *)
(* was.                                                                    *)
(***************************************************************************)
C26_ChecklistMarkedOrUntouched ==
    /\ [](kpc = "done" => parse_todos(ReadText(checklist_disk)) = <<>>)
    /\ [][MarksDone => MarkedExactly]_vars
    /\ [][checklist_disk' # checklist_disk => kpc' = "done"]_vars

\* the part of C26 about a driver that aborts, and what is written when it
\* does not
C26_AbortLeavesChecklist ==
    [][checklist_disk' # checklist_disk
         => kpc' = "done" /\ checklist_disk' = checklist_text]_vars

\* the marking part of C26 when the first occurrence of the item's text in
\* the checklist is the pending line itself
C26_MarkedWhenItemTextOnlyInPendingLines ==
    [][ (MarksDone /\ PendingLineOf # 0
         /\ NextAt(checklist_text, 1, "- [ ] " \o Tick \o todos[ti] \o Tick)
              = 1 + Len(Join(SubSeq(SplitLines(checklist_text), 1,
                                    PendingLineOf - 1) \o <<"">>, "\n")))
        => MarkedExactly ]_vars

====
